---- MODULE Spec2Model ----
(***************************************************************************)
(* State-machine model of the agile_mcp artifact services: StoryService,   *)
(* SprintService, the epic service and the tool adapters that call them.   *)
(* The stores are the per-kind collections kept by the project manager;    *)
(* every action is one complete service (or tool) call.                    *)
(***************************************************************************)
EXTENDS Integers, Sequences, FiniteSets, TLC

VARIABLES
    stories,    \* stored user stories: story id -> record
    sprints,    \* stored sprints: sprint id -> record
    epics,      \* stored epics: epic id -> record
    clock,      \* the day datetime.now() returns
    last        \* the call made last: its name, arguments and outcome

vars == <<stories, sprints, epics, clock, last>>

-----------------------------------------------------------------------------
(* Optional values: Python's None and a present value.                     *)

None == <<>>
Some(v) == <<v>>
Val(o) == o[1]

(* Bounds of the model.                                                    *)
MaxDay == 3

Days == 1..MaxDay

StoryIds == {"STORY-1", "STORY-2"}
SprintIds == {"SPRINT-1", "SPRINT-2"}
EpicIds == {"EPIC-1", "EPIC-2"}

(* The order in which the storage layer lists stored artifacts.            *)
ListOrder == <<"EPIC-1", "EPIC-2", "SPRINT-1", "SPRINT-2", "STORY-1", "STORY-2">>

-----------------------------------------------------------------------------
(* Persistence collaborator (project manager): a key-value collection per  *)
(* artifact kind.                                                          *)

pm_save(store, rec) ==
    [k \in DOMAIN store \cup {rec.id} |-> IF k = rec.id THEN rec ELSE store[k]]

pm_get(store, id) ==
    IF id \in DOMAIN store THEN Some(store[id]) ELSE None

pm_delete(store, id) ==
    [k \in DOMAIN store \ {id} |-> store[k]]

pm_exists(store, id) == id \in DOMAIN store

RECURSIVE pm_list_from(_, _)
pm_list_from(store, i) ==
    IF i > Len(ListOrder) THEN <<>>
    ELSE IF ListOrder[i] \in DOMAIN store
         THEN <<store[ListOrder[i]]>> \o pm_list_from(store, i + 1)
         ELSE pm_list_from(store, i + 1)

pm_list(store) == pm_list_from(store, 1)

EmptyStore == [k \in {} |-> None]

-----------------------------------------------------------------------------
(* Enumerations.                                                           *)

Priorities == {"low", "medium", "high", "critical"}
StoryStatuses == {"todo", "in_progress", "done"}
SprintStatuses == {"planning", "active", "completed", "cancelled"}

(* Python's list.sort(key=..., reverse=True) on <<key, item>> pairs with   *)
(* integer keys: descending, equal keys keep their original order.         *)
RECURSIVE insert_desc(_, _)
insert_desc(sorted, pair) ==
    IF sorted = <<>> THEN <<pair>>
    ELSE IF Head(sorted)[1] >= pair[1]
         THEN <<Head(sorted)>> \o insert_desc(Tail(sorted), pair)
         ELSE <<pair>> \o sorted

RECURSIVE sort_reverse(_)
sort_reverse(pairs) ==
    IF pairs = <<>> THEN <<>>
    ELSE insert_desc(sort_reverse(SubSeq(pairs, 1, Len(pairs) - 1)), pairs[Len(pairs)])

Items(pairs) == [i \in 1..Len(pairs) |-> pairs[i][2]]

Range(seq) == {seq[i] : i \in 1..Len(seq)}

-----------------------------------------------------------------------------
(* Outcome of a call: the store it leaves, what the caller sees, and the   *)
(* writes it asked of the storage layer, in order.                         *)

Ret(store, ret) ==
    [store |-> store, result |-> "returned", ret |-> ret, err |-> "", calls |-> <<>>]

Raise(store, err) ==
    [store |-> store, result |-> "raised", ret |-> None, err |-> err, calls |-> <<>>]

(* A ToolError, which apply_ex reports instead of propagating.             *)
RaiseToolError(store, err) ==
    [store |-> store, result |-> "tool_error", ret |-> None, err |-> err, calls |-> <<>>]

(* project_manager.save_*(rec), then return ret.                           *)
Saved(save_name, store, rec, ret) ==
    [Ret(pm_save(store, rec), ret) EXCEPT !.calls = <<<<save_name, rec.id>>>>]

(* return project_manager.delete_*(id)                                     *)
Deleted(delete_name, store, id) ==
    [Ret(pm_delete(store, id), pm_exists(store, id)) EXCEPT !.calls = <<<<delete_name, id>>>>]

Outcome(op, args, call) ==
    [op |-> op, args |-> args, result |-> call.result, ret |-> call.ret, err |-> call.err,
     calls |-> call.calls]

Supplied(old, arg) == IF arg # None THEN Val(arg) ELSE old

-----------------------------------------------------------------------------
(* StoryService                                                            *)

VALID_FIBONACCI_POINTS == {1, 2, 3, 5, 8, 13, 21, 34, 55, 89, 134}

FibonacciError == "Story points must be a Fibonacci number"

(* Faulty variant of points_rejected: 144 passes as a story-point value.    *)
points_rejected_allows_144(points) ==
    points # None /\ Val(points) \notin (VALID_FIBONACCI_POINTS \cup {144})

points_rejected(points) ==
    points # None /\ Val(points) \notin VALID_FIBONACCI_POINTS

new_story(story_id, title, description, priority, status, points, sprint_id, tags, now) ==
    [id |-> story_id, title |-> title, description |-> description,
     priority |-> priority, status |-> status, points |-> points,
     sprint_id |-> sprint_id, epic_id |-> None,
     tags |-> IF tags = None THEN <<>> ELSE Val(tags), created_at |-> now]

(* Faulty variant of create_story_call: the story is persisted without its *)
(* sprint_id although the caller gets the full story back.                 *)
create_story_call_drops_sprint(store, story_id, title, description, priority, status, points, sprint_id, tags, now) ==
    LET story == new_story(story_id, title, description, priority, status, points,
                           sprint_id, tags, now)
    IN  IF points_rejected(points)
        THEN Raise(store, FibonacciError)
        ELSE Saved("save_story", store, [story EXCEPT !.sprint_id = None], Some(story))

create_story_call(store, story_id, title, description, priority, status, points, sprint_id, tags, now) ==
    LET story == new_story(story_id, title, description, priority, status, points,
                           sprint_id, tags, now)
    IN  IF points_rejected(points)
        THEN Raise(store, FibonacciError)
        ELSE Saved("save_story", store, story, Some(story))

create_story(story_id, title, description, priority, status, points, sprint_id, tags) ==
    LET args == [title |-> title, description |-> description, priority |-> priority,
                 status |-> status, points |-> points, sprint_id |-> sprint_id,
                 tags |-> tags]
        call == create_story_call(stories, story_id, title, description, priority,
                                  status, points, sprint_id, tags, clock)
    IN  /\ stories' = call.store
        /\ last' = Outcome("create_story", args, call)
        /\ UNCHANGED <<sprints, epics, clock>>

get_story(store, story_id) == pm_get(store, story_id)

(* story.model_copy(update=update_data)                                    *)
(* StoryService.get_story called from outside the service.                 *)
get_story_query(story_id) ==
    LET call == Ret(stories, get_story(stories, story_id))
    IN  /\ stories' = call.store
        /\ last' = Outcome("get_story", [story_id |-> story_id], call)
        /\ UNCHANGED <<sprints, epics, clock>>

(* Faulty variant of story_model_copy: tags that are not supplied are      *)
(* reset to the empty list.                                                *)
story_model_copy_resets_tags(story, title, description, priority, status, points, sprint_id, tags) ==
    [story EXCEPT !.title = Supplied(@, title),
                  !.description = Supplied(@, description),
                  !.priority = Supplied(@, priority),
                  !.status = Supplied(@, status),
                  !.points = IF points # None THEN points ELSE @,
                  !.sprint_id = IF sprint_id # None THEN sprint_id ELSE @,
                  !.tags = IF tags # None THEN Val(tags) ELSE <<>>]

story_model_copy(story, title, description, priority, status, points, sprint_id, tags) ==
    [story EXCEPT !.title = Supplied(@, title),
                  !.description = Supplied(@, description),
                  !.priority = Supplied(@, priority),
                  !.status = Supplied(@, status),
                  !.points = IF points # None THEN points ELSE @,
                  !.sprint_id = IF sprint_id # None THEN sprint_id ELSE @,
                  !.tags = Supplied(@, tags)]

(* Faulty variant of update_story_call: the points are validated before    *)
(* the story is looked up.                                                 *)
update_story_call_validates_first(store, story_id, title, description, priority, status, points, sprint_id, tags) ==
    LET story == get_story(store, story_id)
        updated_story == story_model_copy(Val(story), title, description, priority,
                                          status, points, sprint_id, tags)
    IN  IF points_rejected(points) THEN Raise(store, FibonacciError)
        ELSE IF story = None THEN Ret(store, None)
        ELSE Saved("save_story", store, updated_story, Some(updated_story))

update_story_call(store, story_id, title, description, priority, status, points, sprint_id, tags) ==
    LET story == get_story(store, story_id)
        updated_story == story_model_copy(Val(story), title, description, priority,
                                          status, points, sprint_id, tags)
    IN  IF story = None THEN Ret(store, None)
        ELSE IF points_rejected(points) THEN Raise(store, FibonacciError)
        ELSE Saved("save_story", store, updated_story, Some(updated_story))

update_story(story_id, title, description, priority, status, points, sprint_id, tags) ==
    LET args == [story_id |-> story_id, title |-> title, description |-> description,
                 priority |-> priority, status |-> status, points |-> points,
                 sprint_id |-> sprint_id, tags |-> tags]
        call == update_story_call(stories, story_id, title, description, priority,
                                  status, points, sprint_id, tags)
    IN  /\ stories' = call.store
        /\ last' = Outcome("update_story", args, call)
        /\ UNCHANGED <<sprints, epics, clock>>

(* Faulty variant of delete_story_call: reports a deletion even when the   *)
(* story is not stored.                                                    *)
delete_story_call_reports_deleted(store, story_id) ==
    [Deleted("delete_story", store, story_id) EXCEPT !.ret = TRUE]

(* Faulty variant of delete_story_call: the delete is refused and nothing   *)
(* is removed.                                                             *)
delete_story_call_refuses(store, story_id) == Ret(store, FALSE)

delete_story_call(store, story_id) ==
    Deleted("delete_story", store, story_id)

delete_story(story_id) ==
    LET call == delete_story_call(stories, story_id)
    IN  /\ stories' = call.store
        /\ last' = Outcome("delete_story", [story_id |-> story_id], call)
        /\ UNCHANGED <<sprints, epics, clock>>

-----------------------------------------------------------------------------
(* Sprint model and SprintService                                          *)

EndDateError == "End date must be after start date"

SprintValidationError == "1 validation error for Sprint: end_date: Value error, End date must be after start date"

(* Sprint.validate_end_date: what constructing a Sprint rejects.           *)
validate_end_date_fails(start_date, end_date) ==
    end_date # None /\ start_date # None /\ Val(end_date) <= Val(start_date)

(* Faulty variant of create_dates_rejected: equal dates pass the check.     *)
create_dates_rejected_strictly_before(start_date, end_date) ==
    start_date # None /\ end_date # None /\ Val(end_date) < Val(start_date)

(* The date check at the head of create_sprint.                            *)
create_dates_rejected(start_date, end_date) ==
    start_date # None /\ end_date # None /\ Val(end_date) <= Val(start_date)

new_sprint(sprint_id, name, goal, start_date, end_date, status, story_ids, tags, now) ==
    [id |-> sprint_id, name |-> name, goal |-> goal, start_date |-> start_date,
     end_date |-> end_date, status |-> status,
     story_ids |-> IF story_ids = None THEN <<>> ELSE Val(story_ids),
     tags |-> IF tags = None THEN <<>> ELSE Val(tags),
     created_at |-> now]

create_sprint_call(store, sprint_id, name, goal, start_date, end_date, status, story_ids, tags, now) ==
    LET sprint == new_sprint(sprint_id, name, goal, start_date, end_date, status,
                             story_ids, tags, now)
    IN  IF create_dates_rejected(start_date, end_date)
        THEN Raise(store, EndDateError)
        ELSE IF validate_end_date_fails(start_date, end_date)
        THEN Raise(store, SprintValidationError)
        ELSE Saved("save_sprint", store, sprint, Some(sprint))

create_sprint(sprint_id, name, goal, start_date, end_date, status, story_ids, tags) ==
    LET args == [name |-> name, goal |-> goal, start_date |-> start_date,
                 end_date |-> end_date, status |-> status, story_ids |-> story_ids,
                 tags |-> tags]
        call == create_sprint_call(sprints, sprint_id, name, goal, start_date, end_date,
                                   status, story_ids, tags, clock)
    IN  /\ sprints' = call.store
        /\ last' = Outcome("create_sprint", args, call)
        /\ UNCHANGED <<stories, epics, clock>>

get_sprint(store, sprint_id) == pm_get(store, sprint_id)

(* sprint.model_copy(update=update_data): the copy takes the stored fields *)
(* and the supplied ones; model_copy runs no validator on the result.      *)
(* SprintService.get_sprint called from outside the service.               *)
get_sprint_query(sprint_id) ==
    LET call == Ret(sprints, get_sprint(sprints, sprint_id))
    IN  /\ sprints' = call.store
        /\ last' = Outcome("get_sprint", [sprint_id |-> sprint_id], call)
        /\ UNCHANGED <<stories, epics, clock>>

(* Faulty variant of sprint_model_copy: goal and the two dates are         *)
(* assigned as passed, so an omitted one is cleared.                       *)
sprint_model_copy_assigns_none(sprint, name, goal, start_date, end_date, status, story_ids, tags) ==
    [sprint EXCEPT !.name = Supplied(@, name),
                   !.goal = goal,
                   !.start_date = start_date,
                   !.end_date = end_date,
                   !.status = Supplied(@, status),
                   !.story_ids = Supplied(@, story_ids),
                   !.tags = Supplied(@, tags)]

sprint_model_copy(sprint, name, goal, start_date, end_date, status, story_ids, tags) ==
    [sprint EXCEPT !.name = Supplied(@, name),
                   !.goal = IF goal # None THEN goal ELSE @,
                   !.start_date = IF start_date # None THEN start_date ELSE @,
                   !.end_date = IF end_date # None THEN end_date ELSE @,
                   !.status = Supplied(@, status),
                   !.story_ids = Supplied(@, story_ids),
                   !.tags = Supplied(@, tags)]

update_sprint_call(store, sprint_id, name, goal, start_date, end_date, status, story_ids, tags) ==
    LET sprint == get_sprint(store, sprint_id)
        updated_sprint == sprint_model_copy(Val(sprint), name, goal, start_date,
                                            end_date, status, story_ids, tags)
    IN  IF sprint = None THEN Ret(store, None)
        ELSE Saved("save_sprint", store, updated_sprint, Some(updated_sprint))

update_sprint(sprint_id, name, goal, start_date, end_date, status, story_ids, tags) ==
    LET args == [sprint_id |-> sprint_id, name |-> name, goal |-> goal,
                 start_date |-> start_date, end_date |-> end_date, status |-> status,
                 story_ids |-> story_ids, tags |-> tags]
        call == update_sprint_call(sprints, sprint_id, name, goal, start_date, end_date,
                                   status, story_ids, tags)
    IN  /\ sprints' = call.store
        /\ last' = Outcome("update_sprint", args, call)
        /\ UNCHANGED <<stories, epics, clock>>

delete_sprint_call(store, sprint_id) ==
    Deleted("delete_sprint", store, sprint_id)

delete_sprint(sprint_id) ==
    LET call == delete_sprint_call(sprints, sprint_id)
    IN  /\ sprints' = call.store
        /\ last' = Outcome("delete_sprint", [sprint_id |-> sprint_id], call)
        /\ UNCHANGED <<stories, epics, clock>>

(* Faulty variant of add_story_id: appends without the membership test.    *)
add_story_id_always_appends(story_ids, story_id) == Append(story_ids, story_id)

(* Faulty variant of add_story_id: a new ID is put at the front.           *)
add_story_id_prepends(story_ids, story_id) ==
    IF story_id \notin Range(story_ids) THEN <<story_id>> \o story_ids ELSE story_ids

add_story_id(story_ids, story_id) ==
    IF story_id \notin Range(story_ids) THEN Append(story_ids, story_id) ELSE story_ids

add_story_to_sprint_call(store, sprint_id, story_id) ==
    LET sprint == get_sprint(store, sprint_id)
    IN  IF sprint = None THEN Ret(store, None)
        ELSE update_sprint_call(store, sprint_id, None, None, None, None, None,
                                Some(add_story_id(Val(sprint).story_ids, story_id)), None)

add_story_to_sprint(sprint_id, story_id) ==
    LET args == [sprint_id |-> sprint_id, story_id |-> story_id]
        call == add_story_to_sprint_call(sprints, sprint_id, story_id)
    IN  /\ sprints' = call.store
        /\ last' = Outcome("add_story_to_sprint", args, call)
        /\ UNCHANGED <<stories, epics, clock>>

(* Faulty variant of remove_story_id: list.remove, which drops only the    *)
(* first occurrence.                                                       *)
RECURSIVE remove_story_id_first_only(_, _)
remove_story_id_first_only(story_ids, story_id) ==
    IF story_ids = <<>> THEN <<>>
    ELSE IF Head(story_ids) = story_id THEN Tail(story_ids)
    ELSE <<Head(story_ids)>> \o remove_story_id_first_only(Tail(story_ids), story_id)

remove_story_id(story_ids, story_id) ==
    SelectSeq(story_ids, LAMBDA sid : sid # story_id)

remove_story_from_sprint_call(store, sprint_id, story_id) ==
    LET sprint == get_sprint(store, sprint_id)
    IN  IF sprint = None THEN Ret(store, None)
        ELSE update_sprint_call(store, sprint_id, None, None, None, None, None,
                                Some(remove_story_id(Val(sprint).story_ids, story_id)), None)

remove_story_from_sprint(sprint_id, story_id) ==
    LET args == [sprint_id |-> sprint_id, story_id |-> story_id]
        call == remove_story_from_sprint_call(sprints, sprint_id, story_id)
    IN  /\ sprints' = call.store
        /\ last' = Outcome("remove_story_from_sprint", args, call)
        /\ UNCHANGED <<stories, epics, clock>>

(* start_date / end_date: the date given, or datetime.now().               *)
DateOrNow(date, now) == IF date = None THEN Some(now) ELSE date

(* Faulty variant of start_sprint_call: a sprint cannot be started while   *)
(* another sprint is active.                                               *)
start_sprint_call_single_active(store, sprint_id, start_date, now) ==
    IF \E other \in DOMAIN store \ {sprint_id} : store[other].status = "active"
    THEN Raise(store, "Another sprint is already active")
    ELSE update_sprint_call(store, sprint_id, None, None, DateOrNow(start_date, now),
                            None, Some("active"), None, None)

start_sprint_call(store, sprint_id, start_date, now) ==
    update_sprint_call(store, sprint_id, None, None, DateOrNow(start_date, now), None,
                       Some("active"), None, None)

start_sprint(sprint_id, start_date) ==
    LET args == [sprint_id |-> sprint_id, start_date |-> start_date]
        call == start_sprint_call(sprints, sprint_id, start_date, clock)
    IN  /\ sprints' = call.store
        /\ last' = Outcome("start_sprint", args, call)
        /\ UNCHANGED <<stories, epics, clock>>

(* Faulty variant of complete_sprint_call: completing also clears the      *)
(* sprint's story_ids.                                                     *)
complete_sprint_call_drops_stories(store, sprint_id, end_date, now) ==
    update_sprint_call(store, sprint_id, None, None, None, DateOrNow(end_date, now),
                       Some("completed"), Some(<<>>), None)

complete_sprint_call(store, sprint_id, end_date, now) ==
    update_sprint_call(store, sprint_id, None, None, None, DateOrNow(end_date, now),
                       Some("completed"), None, None)

complete_sprint(sprint_id, end_date) ==
    LET args == [sprint_id |-> sprint_id, end_date |-> end_date]
        call == complete_sprint_call(sprints, sprint_id, end_date, clock)
    IN  /\ sprints' = call.store
        /\ last' = Outcome("complete_sprint", args, call)
        /\ UNCHANGED <<stories, epics, clock>>

cancel_sprint_call(store, sprint_id) ==
    update_sprint_call(store, sprint_id, None, None, None, None, Some("cancelled"),
                       None, None)

cancel_sprint(sprint_id) ==
    LET args == [sprint_id |-> sprint_id]
        call == cancel_sprint_call(sprints, sprint_id)
    IN  /\ sprints' = call.store
        /\ last' = Outcome("cancel_sprint", args, call)
        /\ UNCHANGED <<stories, epics, clock>>

(* Faulty variant of list_sprints_call: the result is left in storage      *)
(* order.                                                                  *)
list_sprints_call_unsorted(store, status, include_story_ids) ==
    LET keep(sprint) == status = None \/ sprint.status = Val(status)
        filtered == SelectSeq(pm_list(store), keep)
    IN  Ret(store, [i \in 1..Len(filtered) |->
                       IF ~include_story_ids
                       THEN [filtered[i] EXCEPT !.story_ids = <<>>]
                       ELSE filtered[i]])

list_sprints_call(store, status, include_story_ids) ==
    LET all_sprints == pm_list(store)
        keep(sprint) == status = None \/ sprint.status = Val(status)
        filtered == SelectSeq(all_sprints, keep)
        filtered_sprints ==
            [i \in 1..Len(filtered) |->
                IF ~include_story_ids
                THEN [filtered[i] EXCEPT !.story_ids = <<>>]
                ELSE filtered[i]]
    IN  Ret(store, Items(sort_reverse([i \in 1..Len(filtered_sprints) |->
                       <<filtered_sprints[i].created_at, filtered_sprints[i]>>])))

list_sprints(status, include_story_ids) ==
    LET args == [status |-> status, include_story_ids |-> include_story_ids]
        call == list_sprints_call(sprints, status, include_story_ids)
    IN  /\ sprints' = call.store
        /\ last' = Outcome("list_sprints", args, call)
        /\ UNCHANGED <<stories, epics, clock>>

(* Faulty variant of get_active_sprint_call: the summary listing is used,  *)
(* so the sprint comes back without its story_ids.                         *)
get_active_sprint_call_summary(store) ==
    LET active_sprints == list_sprints_call(store, Some("active"), FALSE).ret
    IN  Ret(store, IF active_sprints # <<>> THEN Some(active_sprints[1]) ELSE None)

get_active_sprint_call(store) ==
    LET active_sprints == list_sprints_call(store, Some("active"), TRUE).ret
    IN  Ret(store, IF active_sprints # <<>> THEN Some(active_sprints[1]) ELSE None)

get_active_sprint ==
    LET call == get_active_sprint_call(sprints)
    IN  /\ sprints' = call.store
        /\ last' = Outcome("get_active_sprint", <<>>, call)
        /\ UNCHANGED <<stories, epics, clock>>

(* Faulty variant of get_sprints_by_status_call: the summary copies, with  *)
(* their story_ids emptied, are written back to the store.                 *)
get_sprints_by_status_call_saves_summaries(store, status) ==
    LET call == list_sprints_call(store, Some(status), FALSE)
    IN  [call EXCEPT !.store = [id \in DOMAIN store |->
                                   [store[id] EXCEPT !.story_ids = <<>>]]]

get_sprints_by_status_call(store, status) == list_sprints_call(store, Some(status), FALSE)

get_sprints_by_status(status) ==
    LET call == get_sprints_by_status_call(sprints, status)
    IN  /\ sprints' = call.store
        /\ last' = Outcome("get_sprints_by_status", [status |-> status], call)
        /\ UNCHANGED <<stories, epics, clock>>

(* end_date - start_date, in days.                                         *)
calculate_sprint_duration_call(store, sprint_id) ==
    LET sprint == get_sprint(store, sprint_id)
    IN  IF sprint = None \/ Val(sprint).start_date = None \/ Val(sprint).end_date = None
        THEN Ret(store, None)
        ELSE Ret(store, Some(Val(Val(sprint).end_date) - Val(Val(sprint).start_date)))

calculate_sprint_duration(sprint_id) ==
    LET call == calculate_sprint_duration_call(sprints, sprint_id)
    IN  /\ sprints' = call.store
        /\ last' = Outcome("calculate_sprint_duration", [sprint_id |-> sprint_id], call)
        /\ UNCHANGED <<stories, epics, clock>>

(* A float quotient, kept exact as numerator over denominator.             *)
Quotient(num, den) == [num |-> num, den |-> den]

ZeroDivisionError == "float division by zero"

(* Faulty variant of EmptyDict: an unknown sprint is reported with a       *)
(* status.                                                                 *)
EmptyDict_with_status == [status |-> "unknown"]

(* The empty dict get_sprint_progress returns for an unknown sprint.       *)
EmptyDict == [k \in {} |-> None]

get_sprint_progress_call(store, sprint_id, now) ==
    LET sprint == get_sprint(store, sprint_id)
        s == Val(sprint)
        progress == [sprint_id |-> sprint_id, name |-> s.name, status |-> s.status,
                     story_count |-> Len(s.story_ids), start_date |-> s.start_date,
                     end_date |-> s.end_date, goal |-> s.goal]
        start == Val(s.start_date)
        end == Val(s.end_date)
        total_duration == end - start
    IN  IF sprint = None THEN Ret(store, EmptyDict)
        ELSE IF s.start_date = None \/ s.end_date = None THEN Ret(store, progress)
        ELSE IF now < start
        THEN Ret(store, progress @@ [time_progress_percent |-> Quotient(0, 1),
                                     days_until_start |-> start - now])
        ELSE IF now > end
        THEN Ret(store, progress @@ [time_progress_percent |-> Quotient(100, 1),
                                     days_overdue |-> now - end])
        ELSE IF total_duration = 0 THEN Raise(store, ZeroDivisionError)
        ELSE Ret(store, progress @@
                        [time_progress_percent |-> Quotient((now - start) * 100,
                                                            total_duration),
                         days_remaining |-> end - now])

get_sprint_progress(sprint_id) ==
    LET call == get_sprint_progress_call(sprints, sprint_id, clock)
    IN  /\ sprints' = call.store
        /\ last' = Outcome("get_sprint_progress", [sprint_id |-> sprint_id, now |-> clock],
                           call)
        /\ UNCHANGED <<stories, epics, clock>>

-----------------------------------------------------------------------------
(* EpicService                                                             *)

(* Outcome of an epic call, which may write epics and stories.             *)
EpicRet(epic_store, story_store, ret, calls) ==
    [epics |-> epic_store, stories |-> story_store, result |-> "returned",
     ret |-> ret, err |-> "", calls |-> calls]

new_epic(epic_id, title, description, status, tags, now) ==
    [id |-> epic_id, title |-> title, description |-> description, status |-> status,
     story_ids |-> <<>>, tags |-> IF tags = None THEN <<>> ELSE Val(tags),
     created_at |-> now]

create_epic_call(epic_store, story_store, epic_id, title, description, status, tags, now) ==
    LET epic == new_epic(epic_id, title, description, status, tags, now)
    IN  EpicRet(pm_save(epic_store, epic), story_store, Some(epic),
                <<<<"save_epic", epic_id>>>>)

create_epic(epic_id, title, description, status, tags) ==
    LET args == [title |-> title, description |-> description, status |-> status,
                 tags |-> tags]
        call == create_epic_call(epics, stories, epic_id, title, description, status,
                                 tags, clock)
    IN  /\ epics' = call.epics
        /\ stories' = call.stories
        /\ last' = Outcome("create_epic", args, call)
        /\ UNCHANGED <<sprints, clock>>

get_epic(epic_store, epic_id) == pm_get(epic_store, epic_id)

update_epic_call(epic_store, story_store, epic_id, title, description, status, tags) ==
    LET epic == get_epic(epic_store, epic_id)
        updated_epic == [Val(epic) EXCEPT !.title = Supplied(@, title),
                                          !.description = Supplied(@, description),
                                          !.status = Supplied(@, status),
                                          !.tags = Supplied(@, tags)]
    IN  IF epic = None THEN EpicRet(epic_store, story_store, None, <<>>)
        ELSE EpicRet(pm_save(epic_store, updated_epic), story_store, Some(updated_epic),
                     <<<<"save_epic", epic_id>>>>)

update_epic(epic_id, title, description, status, tags) ==
    LET args == [epic_id |-> epic_id, title |-> title, description |-> description,
                 status |-> status, tags |-> tags]
        call == update_epic_call(epics, stories, epic_id, title, description, status, tags)
    IN  /\ epics' = call.epics
        /\ stories' = call.stories
        /\ last' = Outcome("update_epic", args, call)
        /\ UNCHANGED <<sprints, clock>>

(* The stories delete_epic clears: those the epic lists and those whose    *)
(* epic_id names the epic.                                                 *)
epic_cleanup_targets(story_store, epic) ==
    {sid \in DOMAIN story_store :
        sid \in Range(epic.story_ids) \/ story_store[sid].epic_id = Some(epic.id)}

(* Faulty variant of cleanup_story_references: the cleared stories are     *)
(* never persisted.                                                        *)
cleanup_story_references_not_persisted(story_store, epic) == story_store

cleanup_story_references(story_store, epic) ==
    [sid \in DOMAIN story_store |->
        IF sid \in epic_cleanup_targets(story_store, epic)
        THEN [story_store[sid] EXCEPT !.epic_id = None]
        ELSE story_store[sid]]

delete_epic_call(epic_store, story_store, epic_id) ==
    LET epic == get_epic(epic_store, epic_id)
        targets == SelectSeq(ListOrder,
                             LAMBDA sid : sid \in epic_cleanup_targets(story_store, Val(epic)))
    IN  IF epic = None THEN EpicRet(epic_store, story_store, FALSE, <<>>)
        ELSE EpicRet(pm_delete(epic_store, epic_id),
                     cleanup_story_references(story_store, Val(epic)), TRUE,
                     [i \in 1..Len(targets) |-> <<"save_story", targets[i]>>]
                        \o <<<<"delete_epic", epic_id>>>>)

delete_epic(epic_id) ==
    LET args == [epic_id |-> epic_id, loaded |-> get_epic(epics, epic_id)]
        call == delete_epic_call(epics, stories, epic_id)
    IN  /\ epics' = call.epics
        /\ stories' = call.stories
        /\ last' = Outcome("delete_epic", args, call)
        /\ UNCHANGED <<sprints, clock>>

(* Faulty variant of add_story_to_epic_call: only the epic side is         *)
(* written.                                                                *)
add_story_to_epic_call_one_sided(epic_store, story_store, epic_id, story_id) ==
    LET epic == get_epic(epic_store, epic_id)
        updated_epic == [Val(epic) EXCEPT !.story_ids = add_story_id(@, story_id)]
    IN  IF epic = None THEN EpicRet(epic_store, story_store, None, <<>>)
        ELSE EpicRet(pm_save(epic_store, updated_epic), story_store, Some(updated_epic),
                     <<<<"save_epic", epic_id>>>>)

add_story_to_epic_call(epic_store, story_store, epic_id, story_id) ==
    LET epic == get_epic(epic_store, epic_id)
        updated_epic == [Val(epic) EXCEPT !.story_ids = add_story_id(@, story_id)]
        story == get_story(story_store, story_id)
    IN  IF epic = None THEN EpicRet(epic_store, story_store, None, <<>>)
        ELSE EpicRet(pm_save(epic_store, updated_epic),
                     IF story = None THEN story_store
                     ELSE pm_save(story_store, [Val(story) EXCEPT !.epic_id = Some(epic_id)]),
                     Some(updated_epic),
                     <<<<"save_epic", epic_id>>>>
                        \o (IF story = None THEN <<>> ELSE <<<<"save_story", story_id>>>>))

add_story_to_epic(epic_id, story_id) ==
    LET args == [epic_id |-> epic_id, story_id |-> story_id]
        call == add_story_to_epic_call(epics, stories, epic_id, story_id)
    IN  /\ epics' = call.epics
        /\ stories' = call.stories
        /\ last' = Outcome("add_story_to_epic", args, call)
        /\ UNCHANGED <<sprints, clock>>

(* Faulty variant of remove_story_from_epic_call: the story's epic_id is   *)
(* cleared whichever epic it names.                                        *)
remove_story_from_epic_call_clears_any(epic_store, story_store, epic_id, story_id) ==
    LET epic == get_epic(epic_store, epic_id)
        updated_epic == [Val(epic) EXCEPT !.story_ids = remove_story_id(@, story_id)]
        story == get_story(story_store, story_id)
    IN  IF epic = None THEN EpicRet(epic_store, story_store, None, <<>>)
        ELSE EpicRet(pm_save(epic_store, updated_epic),
                     IF story # None
                     THEN pm_save(story_store, [Val(story) EXCEPT !.epic_id = None])
                     ELSE story_store,
                     Some(updated_epic),
                     <<<<"save_epic", epic_id>>>>
                        \o (IF story # None THEN <<<<"save_story", story_id>>>> ELSE <<>>))

remove_story_from_epic_call(epic_store, story_store, epic_id, story_id) ==
    LET epic == get_epic(epic_store, epic_id)
        updated_epic == [Val(epic) EXCEPT !.story_ids = remove_story_id(@, story_id)]
        story == get_story(story_store, story_id)
    IN  IF epic = None THEN EpicRet(epic_store, story_store, None, <<>>)
        ELSE EpicRet(pm_save(epic_store, updated_epic),
                     IF story # None /\ Val(story).epic_id = Some(epic_id)
                     THEN pm_save(story_store, [Val(story) EXCEPT !.epic_id = None])
                     ELSE story_store,
                     Some(updated_epic),
                     <<<<"save_epic", epic_id>>>>
                        \o (IF story # None /\ Val(story).epic_id = Some(epic_id)
                            THEN <<<<"save_story", story_id>>>> ELSE <<>>))

remove_story_from_epic(epic_id, story_id) ==
    LET args == [epic_id |-> epic_id, story_id |-> story_id]
        call == remove_story_from_epic_call(epics, stories, epic_id, story_id)
    IN  /\ epics' = call.epics
        /\ stories' = call.stories
        /\ last' = Outcome("remove_story_from_epic", args, call)
        /\ UNCHANGED <<sprints, clock>>

(* Faulty variant of list_stories_call: the no-sprint flag is applied      *)
(* even when a sprint_id filter is given.                                  *)
list_stories_call_flag_first(store, status, priority, sprint_id, _filter_no_sprint) ==
    LET all_stories == pm_list(store)
        keep(story) ==
            /\ status = None \/ story.status = Val(status)
            /\ priority = None \/ story.priority = Val(priority)
            /\ IF _filter_no_sprint THEN story.sprint_id = None
               ELSE sprint_id # None => story.sprint_id = sprint_id
    IN  Ret(store, SelectSeq(all_stories, keep))

list_stories_call(store, status, priority, sprint_id, _filter_no_sprint) ==
    LET all_stories == pm_list(store)
        keep(story) ==
            /\ status = None \/ story.status = Val(status)
            /\ priority = None \/ story.priority = Val(priority)
            /\ IF sprint_id # None THEN story.sprint_id = sprint_id
               ELSE _filter_no_sprint => story.sprint_id = None
    IN  Ret(store, SelectSeq(all_stories, keep))

list_stories(status, priority, sprint_id, _filter_no_sprint) ==
    LET args == [status |-> status, priority |-> priority, sprint_id |-> sprint_id,
                 _filter_no_sprint |-> _filter_no_sprint]
        call == list_stories_call(stories, status, priority, sprint_id, _filter_no_sprint)
    IN  /\ stories' = call.store
        /\ last' = Outcome("list_stories", args, call)
        /\ UNCHANGED <<sprints, epics, clock>>

-----------------------------------------------------------------------------
(* Product backlog                                                         *)

(* str.lower() on the tag strings the model uses.                          *)
Lower(tag) ==
    CASE tag = "Backend" -> "backend"
      [] tag = "BACKEND" -> "backend"
      [] tag = "UI" -> "ui"
      [] tag = "ACTIVE" -> "active"
      [] OTHER -> tag

LowerAll(tags) == [i \in 1..Len(tags) |-> Lower(tags[i])]

priority_order(priority) ==
    CASE priority = "critical" -> 4
      [] priority = "high" -> 3
      [] priority = "medium" -> 2
      [] priority = "low" -> 1
      [] OTHER -> 0

(* backlog_stories.sort(key=(priority_order, created_at), reverse=True)    *)
(* Faulty variant of backlog_key: creation time is left out of the key.    *)
backlog_key_priority_only(story) == priority_order(story.priority) * (MaxDay + 1)

backlog_key(story) == priority_order(story.priority) * (MaxDay + 1) + story.created_at

backlog_sort(backlog) ==
    Items(sort_reverse([i \in 1..Len(backlog) |-> <<backlog_key(backlog[i]), backlog[i]>>]))

(* any(tag in [t.lower() for t in s.tags] for tag in tag_list)             *)
any_tag_matches(story, tag_list) ==
    \E i \in 1..Len(tag_list) : tag_list[i] \in Range(LowerAll(story.tags))

get_product_backlog_stories_call(story_store, status, priority, tags) ==
    LET backlog == list_stories_call(story_store, status, priority, None, TRUE).ret
        by_tags(story) ==
            tags = None \/ Val(tags) = <<>> \/ any_tag_matches(story, LowerAll(Val(tags)))
    IN  Ret(story_store, backlog_sort(SelectSeq(backlog, by_tags)))

get_product_backlog_stories(status, priority, tags) ==
    LET args == [status |-> status, priority |-> priority, tags |-> tags]
        call == get_product_backlog_stories_call(stories, status, priority, tags)
    IN  /\ last' = Outcome("get_product_backlog_stories", args, call)
        /\ UNCHANGED <<stories, sprints, epics, clock>>

-----------------------------------------------------------------------------
(* Tool adapter layer                                                      *)

(* AgileTool.apply_ex: a ToolError and any other exception become the      *)
(* returned string.                                                        *)
apply_ex(tool_name, call) ==
    IF call.result = "tool_error"
    THEN [call EXCEPT !.result = "returned", !.err = "",
                      !.ret = <<"Tool Error: ", call.err>>]
    ELSE IF call.result = "raised"
    THEN [call EXCEPT !.result = "returned", !.err = "",
                      !.ret = <<"Unexpected error in ", tool_name, ": ", call.err>>]
    ELSE call

(* datetime.strptime(s, "%Y-%m-%d") on the date strings the model uses:    *)
(* the day it denotes, or None where strptime raises ValueError.           *)
DateStrings == <<"2025-01-01", "2025-01-02", "2025-01-03">>

strptime(s) ==
    IF \E i \in 1..Len(DateStrings) : DateStrings[i] = s
    THEN Some(CHOOSE i \in 1..Len(DateStrings) : DateStrings[i] = s)
    ELSE None

(* Python truthiness of an optional string argument.                       *)
Truthy(arg) == arg # None /\ Val(arg) # ""

(* [tag.strip() for tag in tags.split(",")] on the tag strings used.       *)
split_tags(tags) ==
    CASE tags = "backend, API" -> <<"backend", "API">>
      [] tags = "frontend,ui " -> <<"frontend", "ui">>
      [] OTHER -> <<tags>>

CreateSprintTool_apply(store, sprint_id, name, goal, start_date, end_date, tags, now) ==
    LET start_date_obj == IF Truthy(start_date) THEN strptime(Val(start_date)) ELSE None
        end_date_obj == IF Truthy(end_date) THEN strptime(Val(end_date)) ELSE None
        tags_list == IF Truthy(tags) THEN split_tags(Val(tags)) ELSE <<>>
        call == create_sprint_call(store, sprint_id, name, goal, start_date_obj,
                                   end_date_obj, "planning", None, Some(tags_list), now)
    IN  IF Truthy(start_date) /\ start_date_obj = None
        THEN RaiseToolError(store, "Invalid start_date format")
        ELSE IF Truthy(end_date) /\ end_date_obj = None
        THEN RaiseToolError(store, "Invalid end_date format")
        ELSE IF start_date_obj # None /\ end_date_obj # None
                /\ Val(end_date_obj) <= Val(start_date_obj)
        THEN RaiseToolError(store, EndDateError)
        ELSE IF call.result = "returned"
        THEN [call EXCEPT !.ret = <<"Sprint '", name, "' created successfully with ID ",
                                    Val(call.ret).id>>]
        ELSE call

CreateSprintTool(sprint_id, name, goal, start_date, end_date, tags) ==
    LET args == [name |-> name, goal |-> goal, start_date |-> start_date,
                 end_date |-> end_date, tags |-> tags]
        call == apply_ex("create_sprint",
                         CreateSprintTool_apply(sprints, sprint_id, name, goal,
                                                start_date, end_date, tags, clock))
    IN  /\ sprints' = call.store
        /\ last' = Outcome("CreateSprintTool", args, call)
        /\ UNCHANGED <<stories, epics, clock>>

(* [tag.strip().lower() for tag in tags.split(",")]                        *)
split_tags_lower(tags) == LowerAll(split_tags(tags))

GetProductBacklogTool_apply(story_store, priority, tags, include_completed) ==
    LET all_stories == list_stories_call(story_store, None, None, None, FALSE).ret
        unassigned(story) == story.sprint_id = None \/ Val(story.sprint_id) = ""
        by_priority(story) == ~Truthy(priority) \/ story.priority = Val(priority)
        by_tags(story) ==
            ~Truthy(tags) \/ any_tag_matches(story, split_tags_lower(Val(tags)))
        not_done(story) == include_completed \/ story.status # "done"
        backlog_stories ==
            backlog_sort(SelectSeq(SelectSeq(SelectSeq(SelectSeq(all_stories, unassigned),
                                                       by_priority), by_tags), not_done))
    IN  IF Truthy(priority) /\ Val(priority) \notin Priorities
        THEN RaiseToolError(story_store, "Invalid priority")
        ELSE IF backlog_stories = <<>>
        THEN Ret(story_store, <<"Product backlog is empty - no unassigned stories found",
                                backlog_stories>>)
        ELSE Ret(story_store, <<"Product Backlog", backlog_stories>>)

GetProductBacklogTool(priority, tags, include_completed) ==
    LET args == [priority |-> priority, tags |-> tags,
                 include_completed |-> include_completed]
        call == apply_ex("get_product_backlog",
                         GetProductBacklogTool_apply(stories, priority, tags,
                                                     include_completed))
    IN  /\ last' = Outcome("GetProductBacklogTool", args, call)
        /\ UNCHANGED <<stories, sprints, epics, clock>>

(* The ToolError messages of a failed lookup, without the ID they quote.   *)
SprintNotFound == "Sprint with ID not found"

StoryNotFound == "Story with ID not found"

(* 'not found' in message, over the messages the tools produce.            *)
contains_not_found(message) == message \in {SprintNotFound, StoryNotFound}

(* Faulty variant of GetSprintTool_apply: an unknown sprint is reported    *)
(* as retrieved.                                                           *)
GetSprintTool_apply_no_lookup_check(store, sprint_id, now) ==
    Ret(store, <<"Retrieved sprint: ", sprint_id>>)

GetSprintTool_apply(store, sprint_id, now) ==
    LET sprint == get_sprint(store, sprint_id)
        progress == get_sprint_progress_call(store, sprint_id, now)
    IN  IF sprint = None THEN RaiseToolError(store, SprintNotFound)
        ELSE IF progress.result # "returned" THEN progress
        ELSE Ret(store, <<"Retrieved sprint: ", Val(sprint).name, sprint_id,
                          Val(sprint).status>>)

GetSprintTool(sprint_id) ==
    LET args == [sprint_id |-> sprint_id]
        call == apply_ex("get_sprint", GetSprintTool_apply(sprints, sprint_id, clock))
    IN  /\ sprints' = call.store
        /\ last' = Outcome("GetSprintTool", args, call)
        /\ UNCHANGED <<stories, epics, clock>>

(* SprintStatus(status.lower()): the member, or None on ValueError.        *)
SprintStatus(status) ==
    IF Lower(status) \in SprintStatuses THEN Some(Lower(status)) ELSE None

UpdateSprintTool_apply(store, sprint_id, name, goal, status, start_date, end_date, tags) ==
    LET status_enum == IF status # None THEN SprintStatus(Val(status)) ELSE None
        start_date_obj == IF start_date # None THEN strptime(Val(start_date)) ELSE None
        end_date_obj == IF end_date # None THEN strptime(Val(end_date)) ELSE None
        tags_list == IF tags # None THEN Some(split_tags(Val(tags))) ELSE None
        call == update_sprint_call(store, sprint_id, name, goal, start_date_obj,
                                   end_date_obj, status_enum, None, tags_list)
    IN  IF status # None /\ status_enum = None
        THEN RaiseToolError(store, "Invalid status")
        ELSE IF start_date # None /\ start_date_obj = None
        THEN RaiseToolError(store, "Invalid start_date format")
        ELSE IF end_date # None /\ end_date_obj = None
        THEN RaiseToolError(store, "Invalid end_date format")
        ELSE IF call.result = "returned" /\ call.ret = None
        THEN RaiseToolError(call.store, SprintNotFound)
        ELSE IF call.result = "returned"
        THEN [call EXCEPT !.ret = <<"Sprint '", Val(call.ret).name,
                                    "' updated successfully">>]
        ELSE call

UpdateSprintTool(sprint_id, name, goal, status, start_date, end_date, tags) ==
    LET args == [sprint_id |-> sprint_id, name |-> name, goal |-> goal,
                 status |-> status, start_date |-> start_date,
                 end_date |-> end_date, tags |-> tags]
        call == apply_ex("update_sprint",
                         UpdateSprintTool_apply(sprints, sprint_id, name, goal, status,
                                                start_date, end_date, tags))
    IN  /\ sprints' = call.store
        /\ last' = Outcome("UpdateSprintTool", args, call)
        /\ UNCHANGED <<stories, epics, clock>>

ManageSprintStoriesTool_apply(store, sprint_id, action, story_id) ==
    LET call == IF action = "add"
                THEN add_story_to_sprint_call(store, sprint_id, story_id)
                ELSE remove_story_from_sprint_call(store, sprint_id, story_id)
        action_message == IF action = "add" THEN "' added to sprint '"
                          ELSE "' removed from sprint '"
    IN  IF action \notin {"add", "remove"}
        THEN RaiseToolError(store, "Action must be either 'add' or 'remove'")
        ELSE IF call.result = "returned" /\ call.ret = None
        THEN RaiseToolError(call.store, SprintNotFound)
        ELSE IF call.result = "returned"
        THEN [call EXCEPT !.ret = <<"Story '", story_id, action_message, sprint_id>>]
        ELSE call

ManageSprintStoriesTool(sprint_id, action, story_id) ==
    LET args == [sprint_id |-> sprint_id, action |-> action, story_id |-> story_id]
        call == apply_ex("manage_sprint_stories",
                         ManageSprintStoriesTool_apply(sprints, sprint_id, action,
                                                       story_id))
    IN  /\ sprints' = call.store
        /\ last' = Outcome("ManageSprintStoriesTool", args, call)
        /\ UNCHANGED <<stories, epics, clock>>

GetSprintProgressTool_apply(store, sprint_id, now) ==
    LET sprint == get_sprint(store, sprint_id)
        progress == get_sprint_progress_call(store, sprint_id, now)
    IN  IF sprint = None THEN RaiseToolError(store, SprintNotFound)
        ELSE IF progress.result # "returned" THEN progress
        ELSE Ret(store, <<"Sprint '", progress.ret.name, "' progress: ",
                          progress.ret.status>>)

GetSprintProgressTool(sprint_id) ==
    LET args == [sprint_id |-> sprint_id]
        call == apply_ex("get_sprint_progress",
                         GetSprintProgressTool_apply(sprints, sprint_id, clock))
    IN  /\ sprints' = call.store
        /\ last' = Outcome("GetSprintProgressTool", args, call)
        /\ UNCHANGED <<stories, epics, clock>>

(* The points list of the story tools.                                     *)
valid_points == {1, 2, 3, 5, 8, 13, 21}

CreateStoryTool_apply(store, story_id, title, description, priority, points, tags, now) ==
    LET tags_list == IF Truthy(tags) THEN split_tags(Val(tags)) ELSE <<>>
        call == create_story_call(store, story_id, title, description, priority, "todo",
                                  points, None, Some(tags_list), now)
    IN  IF priority \notin Priorities
        THEN RaiseToolError(store, "Invalid priority")
        ELSE IF points # None /\ Val(points) \notin valid_points
        THEN RaiseToolError(store, FibonacciError)
        ELSE IF call.result = "returned"
        THEN [call EXCEPT !.ret = <<"User story '", title,
                                    "' created successfully with ID ", story_id>>]
        ELSE call

CreateStoryTool(story_id, title, description, priority, points, tags) ==
    LET args == [title |-> title, description |-> description, priority |-> priority,
                 points |-> points, tags |-> tags]
        call == apply_ex("create_story",
                         CreateStoryTool_apply(stories, story_id, title, description,
                                               priority, points, tags, clock))
    IN  /\ stories' = call.store
        /\ last' = Outcome("CreateStoryTool", args, call)
        /\ UNCHANGED <<sprints, epics, clock>>

GetStoryTool_apply(store, story_id) ==
    LET story == get_story(store, story_id)
    IN  IF story = None THEN RaiseToolError(store, StoryNotFound)
        ELSE Ret(store, <<"Retrieved story: ", Val(story).title, story_id>>)

GetStoryTool(story_id) ==
    LET args == [story_id |-> story_id]
        call == apply_ex("get_story", GetStoryTool_apply(stories, story_id))
    IN  /\ stories' = call.store
        /\ last' = Outcome("GetStoryTool", args, call)
        /\ UNCHANGED <<sprints, epics, clock>>

UpdateStoryTool_apply(store, story_id, title, description, priority, status, points, tags) ==
    LET tags_list == IF tags # None THEN Some(split_tags(Val(tags))) ELSE None
        call == update_story_call(store, story_id, title, description, priority,
                                  status, points, None, tags_list)
    IN  IF priority # None /\ Val(priority) \notin Priorities
        THEN RaiseToolError(store, "Invalid priority")
        ELSE IF status # None /\ Val(status) \notin StoryStatuses
        THEN RaiseToolError(store, "Invalid status")
        ELSE IF points # None /\ Val(points) \notin valid_points
        THEN RaiseToolError(store, FibonacciError)
        ELSE IF call.result = "returned" /\ call.ret = None
        THEN RaiseToolError(call.store, StoryNotFound)
        ELSE IF call.result = "returned"
        THEN [call EXCEPT !.ret = <<"Story '", Val(call.ret).title,
                                    "' updated successfully">>]
        ELSE call

UpdateStoryTool(story_id, title, description, priority, status, points, tags) ==
    LET args == [story_id |-> story_id, title |-> title, description |-> description,
                 priority |-> priority, status |-> status, points |-> points,
                 tags |-> tags]
        call == apply_ex("update_story",
                         UpdateStoryTool_apply(stories, story_id, title, description,
                                               priority, status, points, tags))
    IN  /\ stories' = call.store
        /\ last' = Outcome("UpdateStoryTool", args, call)
        /\ UNCHANGED <<sprints, epics, clock>>

DeleteStoryTool_apply(store, story_id) ==
    LET story == get_story(store, story_id)
        call == delete_story_call(store, story_id)
    IN  IF story = None THEN RaiseToolError(store, StoryNotFound)
        ELSE IF call.result = "returned" /\ ~call.ret
        THEN RaiseToolError(call.store, "Failed to delete story")
        ELSE IF call.result = "returned"
        THEN [call EXCEPT !.ret = <<"Story '", Val(story).title, "' with ID ", story_id,
                                    " deleted successfully">>]
        ELSE call

DeleteStoryTool(story_id) ==
    LET args == [story_id |-> story_id]
        call == apply_ex("delete_story", DeleteStoryTool_apply(stories, story_id))
    IN  /\ stories' = call.store
        /\ last' = Outcome("DeleteStoryTool", args, call)
        /\ UNCHANGED <<sprints, epics, clock>>

(* _generate_story_id / _generate_sprint_id: the prefix and four hex       *)
(* digits of a fresh uuid4. The store is not consulted, so every ID of the *)
(* kind can come back, stored or not.                                      *)
generate_story_id == StoryIds

generate_sprint_id == SprintIds

-----------------------------------------------------------------------------
(* The passage of time between calls.                                      *)

Tick ==
    /\ clock < MaxDay
    /\ clock' = clock + 1
    /\ last' = Outcome("tick", [day |-> clock + 1], Ret(None, None))
    /\ UNCHANGED <<stories, sprints, epics>>

Init ==
    /\ stories = EmptyStore
    /\ sprints = EmptyStore
    /\ epics = EmptyStore
    /\ clock = 1
    /\ last = Outcome("init", [day |-> 1], Ret(None, None))

-----------------------------------------------------------------------------
(* Story calls, the points argument ranging over valid and invalid values. *)

PointsInputs == {None, Some(0), Some(1), Some(4), Some(134), Some(144)}

NextStory ==
    \/ \E id \in StoryIds, p \in PointsInputs :
          create_story(id, "t1", "d1", "medium", "todo", p, None, None)
    \/ \E id \in StoryIds, p \in PointsInputs, t \in {None, Some("t2")},
          st \in {None, Some("done")} :
          update_story(id, t, None, None, st, p, None, None)
    \/ \E id \in StoryIds : delete_story(id)

SpecStory == Init /\ [][NextStory]_vars

-----------------------------------------------------------------------------
(* Sprint calls on one sprint, the dates ranging over every order of start *)
(* and end.                                                                *)

DateInputs == {None} \cup {Some(d) : d \in Days}

OneSprint == {"SPRINT-1"}

DateStringInputs ==
    {None, Some(""), Some("2025-01-01"), Some("2025-01-02"), Some("invalid-date")}

NextSprint ==
    \/ \E id \in OneSprint, s \in DateInputs, e \in DateInputs :
          create_sprint(id, "n1", None, s, e, "planning", None, None)
    \/ \E id \in OneSprint, s \in DateInputs, e \in DateInputs,
          st \in {None, Some("planning")} :
          update_sprint(id, None, None, s, e, st, None, None)
    \/ \E id \in OneSprint, d \in DateInputs : start_sprint(id, d)
    \/ \E id \in OneSprint, d \in DateInputs : complete_sprint(id, d)
    \/ \E id \in OneSprint : cancel_sprint(id)
    \/ \E id \in OneSprint : delete_sprint(id)
    \/ \E id \in OneSprint, s \in DateStringInputs, e \in DateStringInputs :
          CreateSprintTool(id, "n1", None, s, e, None)
    \/ Tick

SpecSprint == Init /\ [][NextSprint]_vars

-----------------------------------------------------------------------------
(* Story and sprint calls that set the two sides of a story's sprint       *)
(* membership: the story's sprint_id and the sprint's story_ids.           *)

SprintRefInputs == {None} \cup {Some(id) : id \in SprintIds}

StoryIdsInputs == {None, Some(<<"STORY-1", "STORY-1">>)}

NextLink ==
    \/ \E id \in StoryIds, sp \in SprintRefInputs :
          create_story(id, "t1", "d1", "medium", "todo", None, sp, None)
    \/ \E id \in StoryIds, sp \in SprintRefInputs :
          update_story(id, None, None, None, None, None, sp, None)
    \/ \E id \in StoryIds : delete_story(id)
    \/ \E id \in SprintIds, ids \in StoryIdsInputs :
          create_sprint(id, "n1", None, None, None, "planning", ids, None)
    \/ \E id \in SprintIds, sid \in StoryIds : add_story_to_sprint(id, sid)
    \/ \E id \in SprintIds, sid \in StoryIds : remove_story_from_sprint(id, sid)
    \/ \E id \in SprintIds : delete_sprint(id)

SpecLink == Init /\ [][NextLink]_vars

-----------------------------------------------------------------------------
(* Epic and story calls. The ID generators return unused IDs here, and     *)
(* callers link stories by the IDs of stored stories.                      *)

NextEpic ==
    \/ \E id \in EpicIds \ DOMAIN epics : create_epic(id, "e1", "d1", "planning", None)
    \/ \E id \in EpicIds : update_epic(id, Some("e2"), None, Some("in_progress"), None)
    \/ \E id \in EpicIds : delete_epic(id)
    \/ \E id \in EpicIds, sid \in DOMAIN stories : add_story_to_epic(id, sid)
    \/ \E id \in EpicIds, sid \in StoryIds : remove_story_from_epic(id, sid)
    \/ \E id \in StoryIds \ DOMAIN stories :
          create_story(id, "t1", "d1", "medium", "todo", None, None, None)
    \/ \E id \in StoryIds :
          update_story(id, Some("t2"), None, None, None, None, None, None)
    \/ \E id \in StoryIds : delete_story(id)

SpecEpic == Init /\ [][NextEpic]_vars

-----------------------------------------------------------------------------
(* Stories of every priority, created on different days, with and without  *)
(* a sprint, and the backlog queries over them.                            *)

StoryProfiles ==
    { [status |-> "done", sprint_id |-> None, tags |-> Some(<<"Backend">>)],
      [status |-> "todo", sprint_id |-> Some("SPRINT-1"), tags |-> Some(<<"Backend">>)],
      [status |-> "todo", sprint_id |-> None, tags |-> Some(<<"docs", "UI">>)] }

TagFilters == {None, Some(<<"BACKEND", "ui">>)}

NextBacklog ==
    \/ \E id \in StoryIds, pr \in Priorities, p \in StoryProfiles :
          create_story(id, "t1", "d1", pr, p.status, None, p.sprint_id, p.tags)
    \/ \E st \in {None, Some("todo")}, pr \in {None, Some("critical")}, tg \in TagFilters :
          get_product_backlog_stories(st, pr, tg)
    \/ \E pr \in {None, Some("critical"), Some("urgent")}, inc \in BOOLEAN :
          GetProductBacklogTool(pr, None, inc)
    \/ GetProductBacklogTool(None, Some("backend, API"), TRUE)
    \/ Tick

SpecBacklog == Init /\ [][NextBacklog]_vars

-----------------------------------------------------------------------------
(* Two sprints created on different days, started and completed, and the   *)
(* sprint listings over them.                                              *)

NextBoard ==
    \/ \E id \in SprintIds, ids \in {None, Some(<<"STORY-1">>)} :
          create_sprint(id, "n1", None, None, None, "planning", ids, None)
    \/ \E id \in SprintIds : start_sprint(id, None)
    \/ \E id \in SprintIds : complete_sprint(id, None)
    \/ \E st \in {None, Some("active")}, inc \in BOOLEAN : list_sprints(st, inc)
    \/ get_active_sprint
    \/ Tick

SpecBoard == Init /\ [][NextBoard]_vars

-----------------------------------------------------------------------------
(* Calls addressed to IDs that are stored and to IDs that are not: only    *)
(* the first ID of each kind is ever created.                              *)

StoredIds == {"STORY-1", "SPRINT-1", "EPIC-1"}

NextAbsent ==
    \/ \E id \in StoryIds \cap StoredIds :
          create_story(id, "t1", "d1", "medium", "todo", None, None, None)
    \/ \E id \in SprintIds \cap StoredIds :
          create_sprint(id, "n1", None, None, None, "planning", None, None)
    \/ \E id \in EpicIds \cap StoredIds : create_epic(id, "e1", "d1", "planning", None)
    \/ \E id \in StoryIds : delete_story(id)
    \/ \E id \in SprintIds : delete_sprint(id)
    \/ \E id \in EpicIds : delete_epic(id)
    \/ \E id \in StoryIds, p \in {None, Some(4)} :
          update_story(id, Some("t2"), None, None, None, p, None, None)
    \/ \E id \in SprintIds : update_sprint(id, Some("n2"), None, None, None, None, None, None)
    \/ \E id \in SprintIds : add_story_to_sprint(id, "STORY-1")
    \/ \E id \in SprintIds : remove_story_from_sprint(id, "STORY-1")
    \/ \E id \in SprintIds : start_sprint(id, None)
    \/ \E id \in SprintIds : complete_sprint(id, None)
    \/ \E id \in SprintIds : cancel_sprint(id)
    \/ \E id \in EpicIds : update_epic(id, Some("e2"), None, None, None)
    \/ \E id \in EpicIds : add_story_to_epic(id, "STORY-1")
    \/ \E id \in EpicIds : remove_story_from_epic(id, "STORY-1")

SpecAbsent == Init /\ [][NextAbsent]_vars

-----------------------------------------------------------------------------
(* Partial updates of one story and one sprint, a second story and a       *)
(* second sprint standing by.                                              *)

StoryUpdates ==
    LET none == [title |-> None, description |-> None, priority |-> None,
                 status |-> None, points |-> None, sprint_id |-> None, tags |-> None]
    IN  { none,
          [none EXCEPT !.title = Some("t2")],
          [none EXCEPT !.points = Some(3)],
          [none EXCEPT !.sprint_id = Some("SPRINT-1")],
          [none EXCEPT !.description = Some("d2"), !.priority = Some("high"),
                       !.status = Some("done"), !.tags = Some(<<"api">>)] }

SprintUpdates ==
    LET none == [name |-> None, goal |-> None, start_date |-> None, end_date |-> None,
                 status |-> None, story_ids |-> None, tags |-> None]
    IN  { none,
          [none EXCEPT !.name = Some("n2")],
          [none EXCEPT !.start_date = Some(1)],
          [none EXCEPT !.story_ids = Some(<<"STORY-2">>)],
          [none EXCEPT !.goal = Some("g2"), !.end_date = Some(2),
                       !.status = Some("active"), !.tags = Some(<<"q1">>)] }

NextUpdate ==
    \/ \E id \in StoryIds :
          create_story(id, "t1", "d1", "medium", "todo", Some(1), None, Some(<<"ui">>))
    \/ \E id \in SprintIds :
          create_sprint(id, "n1", Some("g1"), None, None, "planning",
                        Some(<<"STORY-1">>), Some(<<"q0">>))
    \/ \E u \in StoryUpdates :
          update_story("STORY-1", u.title, u.description, u.priority, u.status,
                       u.points, u.sprint_id, u.tags)
    \/ \E u \in SprintUpdates :
          update_sprint("SPRINT-1", u.name, u.goal, u.start_date, u.end_date,
                        u.status, u.story_ids, u.tags)

SpecUpdate == Init /\ [][NextUpdate]_vars

-----------------------------------------------------------------------------
(* One sprint started, completed and cancelled on given days and on the    *)
(* current day, next to a second sprint that is only created.              *)

NextLifecycle ==
    \/ \E id \in SprintIds :
          create_sprint(id, "n1", Some("g1"), None, None, "planning",
                        Some(<<"STORY-1">>), Some(<<"q0">>))
    \/ \E id \in OneSprint, d \in {None, Some(2)} : start_sprint(id, d)
    \/ \E id \in OneSprint, d \in {None, Some(2)} : complete_sprint(id, d)
    \/ \E id \in OneSprint : cancel_sprint(id)
    \/ Tick

SpecLifecycle == Init /\ [][NextLifecycle]_vars

-----------------------------------------------------------------------------
(* Membership of two sprints over three story IDs, starting from a list    *)
(* that holds one of them twice.                                           *)

MemberIds == {"STORY-1", "STORY-2", "STORY-3"}

NextMembers ==
    \/ \E id \in SprintIds :
          create_sprint(id, "n1", None, None, None, "planning",
                        Some(<<"STORY-3", "STORY-1", "STORY-2", "STORY-1">>), None)
    \/ \E id \in SprintIds, sid \in MemberIds : add_story_to_sprint(id, sid)
    \/ \E id \in SprintIds, sid \in MemberIds : remove_story_from_sprint(id, sid)

SpecMembers == Init /\ [][NextMembers]_vars

-----------------------------------------------------------------------------
(* Stories of two priorities and statuses, in one of two sprints or in     *)
(* none, and the story listings over them.                                 *)

NextListing ==
    \/ \E id \in StoryIds, pr \in {"low", "high"}, st \in {"todo", "done"},
          sp \in {None, Some("SPRINT-1"), Some("SPRINT-2")} :
          create_story(id, "t1", "d1", pr, st, None, sp, None)
    \/ \E st \in {None, Some("todo")}, pr \in {None, Some("high")},
          sp \in {None, Some("SPRINT-1")}, flag \in BOOLEAN :
          list_stories(st, pr, sp, flag)

SpecListing == Init /\ [][NextListing]_vars

-----------------------------------------------------------------------------
(* One sprint with every combination of dates, its membership changing,    *)
(* and progress and duration asked on every day, also of a sprint that is  *)
(* never created.                                                          *)

NextProgress ==
    \/ \E id \in OneSprint, s \in DateInputs, e \in DateInputs :
          create_sprint(id, "n1", None, s, e, "planning", None, None)
    \/ \E id \in OneSprint, s \in {None, Some(1), Some(2)}, e \in {Some(1), Some(2)} :
          update_sprint(id, None, None, s, e, None, None, None)
    \/ \E id \in OneSprint : start_sprint(id, None)
    \/ \E id \in OneSprint : add_story_to_sprint(id, "STORY-1")
    \/ \E id \in OneSprint : remove_story_from_sprint(id, "STORY-1")
    \/ \E id \in SprintIds : get_sprint_progress(id)
    \/ \E id \in SprintIds : calculate_sprint_duration(id)
    \/ Tick

SpecProgress == Init /\ [][NextProgress]_vars

-----------------------------------------------------------------------------
(* Tool calls on stored and unknown IDs, with well-formed and malformed    *)
(* arguments; one story and one sprint can be stored.                      *)

OneStory == {"STORY-1"}

ToolPointsInputs == {None, Some(4), Some(21), Some(34), Some(134)}

NextTools ==
    \/ \E id \in OneSprint :
          create_sprint(id, "n1", None, None, None, "planning", None, None)
    \/ \E id \in OneStory, p \in ToolPointsInputs :
          CreateStoryTool(id, "t1", "d1", "medium", p, None)
    \/ \E id \in SprintIds : GetSprintTool(id)
    \/ \E id \in SprintIds, status \in {None, Some("ACTIVE"), Some("started")},
          start_date \in {None, Some("2025-01-02"), Some("02/01/2025")} :
          UpdateSprintTool(id, None, None, status, start_date, None, None)
    \/ \E id \in SprintIds, action \in {"add", "remove", "move"} :
          ManageSprintStoriesTool(id, action, "STORY-1")
    \/ \E id \in SprintIds : GetSprintProgressTool(id)
    \/ \E id \in StoryIds : GetStoryTool(id)
    \/ \E id \in StoryIds, priority \in {None, Some("urgent")},
          status \in {None, Some("done"), Some("closed")}, p \in ToolPointsInputs :
          UpdateStoryTool(id, None, None, priority, status, p, None)
    \/ \E id \in StoryIds : DeleteStoryTool(id)

SpecTools == Init /\ [][NextTools]_vars

-----------------------------------------------------------------------------
(* Two sprints moved between the four statuses in any order.               *)

NextTransitions ==
    \/ \E id \in SprintIds :
          create_sprint(id, "n1", None, None, None, "planning", None, None)
    \/ \E id \in SprintIds, status \in SprintStatuses :
          update_sprint(id, None, None, None, None, Some(status), None, None)
    \/ \E id \in SprintIds : start_sprint(id, None)
    \/ \E id \in SprintIds : complete_sprint(id, None)
    \/ \E id \in SprintIds : cancel_sprint(id)

SpecTransitions == Init /\ [][NextTransitions]_vars

-----------------------------------------------------------------------------
(* One story and one sprint created with and without their optional        *)
(* fields, then updated and moved through the sprint lifecycle.            *)

NextNullable ==
    \/ \E id \in OneStory, p \in {None, Some(1)}, sp \in {None, Some("SPRINT-1")} :
          create_story(id, "t1", "d1", "medium", "todo", p, sp, None)
    \/ \E id \in OneSprint, g \in {None, Some("g1")}, e \in {None, Some(3)} :
          create_sprint(id, "n1", g, None, e, "planning", None, None)
    \/ \E id \in OneStory, u \in StoryUpdates :
          update_story(id, u.title, u.description, u.priority, u.status,
                       u.points, u.sprint_id, u.tags)
    \/ \E id \in OneSprint, u \in SprintUpdates :
          update_sprint(id, u.name, u.goal, u.start_date, u.end_date,
                        u.status, u.story_ids, u.tags)
    \/ \E id \in OneSprint : start_sprint(id, None)
    \/ \E id \in OneSprint : complete_sprint(id, None)
    \/ \E id \in OneSprint : cancel_sprint(id)

SpecNullable == Init /\ [][NextNullable]_vars

-----------------------------------------------------------------------------
(* Stories and sprints created under generated IDs, and deleted.           *)

NextCreate ==
    \/ \E id \in generate_story_id, title \in {"t1", "t2"} :
          create_story(id, title, "d1", "medium", "todo", None, None, None)
    \/ \E id \in generate_sprint_id, name \in {"n1", "n2"} :
          create_sprint(id, name, None, None, None, "planning", None, None)
    \/ \E id \in StoryIds : delete_story(id)
    \/ \E id \in SprintIds : delete_sprint(id)

SpecCreate == Init /\ [][NextCreate]_vars

-----------------------------------------------------------------------------
(* Sprints created without story_ids whose membership changes only through *)
(* add_story_to_sprint and remove_story_from_sprint. STORY-2 is added only *)
(* to a sprint that lists STORY-1, so in every sprint the first addition   *)
(* of STORY-1 comes before the first addition of STORY-2.                  *)

NextRoster ==
    \/ \E id \in SprintIds \ DOMAIN sprints :
          create_sprint(id, "n1", None, None, None, "planning", None, None)
    \/ \E id \in SprintIds, sid \in MemberIds \ {"STORY-2"} :
          add_story_to_sprint(id, sid)
    \/ \E id \in DOMAIN sprints :
          /\ "STORY-1" \in Range(sprints[id].story_ids)
          /\ add_story_to_sprint(id, "STORY-2")
    \/ \E id \in SprintIds, sid \in MemberIds : remove_story_from_sprint(id, sid)

SpecRoster == Init /\ [][NextRoster]_vars

-----------------------------------------------------------------------------
(* A story and a sprint, stored with and without dates, and every query    *)
(* of the two services on stored and unknown IDs.                          *)

NextQueries ==
    \/ \E id \in OneStory, sp \in {None, Some("SPRINT-1")} :
          create_story(id, "t1", "d1", "medium", "todo", None, sp, None)
    \/ \E id \in OneSprint, s \in {None, Some(1)}, e \in {None, Some(2)} :
          create_sprint(id, "n1", None, s, e, "planning", Some(<<"STORY-1">>), None)
    \/ \E id \in OneSprint : start_sprint(id, None)
    \/ \E id \in StoryIds : get_story_query(id)
    \/ \E status \in {None, Some("todo")}, sp \in {None, Some("SPRINT-1")},
          flag \in BOOLEAN : list_stories(status, None, sp, flag)
    \/ \E id \in SprintIds : get_sprint_query(id)
    \/ \E status \in {None, Some("active")}, include \in BOOLEAN :
          list_sprints(status, include)
    \/ \E status \in {"planning", "active"} : get_sprints_by_status(status)
    \/ get_active_sprint
    \/ \E id \in SprintIds : calculate_sprint_duration(id)
    \/ \E id \in SprintIds : get_sprint_progress(id)
    \/ Tick

SpecQueries == Init /\ [][NextQueries]_vars

-----------------------------------------------------------------------------
(* Claims                                                                  *)

ClaimedPoints == {1, 2, 3, 5, 8, 13, 21, 34, 55, 89, 134}

BothDates(rec) == rec.start_date # None /\ rec.end_date # None

C5_EndAfterStart ==
    \A id \in DOMAIN sprints :
        BothDates(sprints[id]) => Val(sprints[id].end_date) > Val(sprints[id].start_date)

(* C6: create_sprint with both dates returns the persisted sprint iff      *)
(* end_date > start_date, and otherwise raises 'End date must be after     *)
(* start date' with no sprint persisted; the create-sprint tool does the   *)
(* same and reports the failure as a tool error.                           *)
C6_CreateSprintDates ==
    [][ /\ ( (last'.op = "create_sprint" /\ BothDates(last'.args))
             => IF Val(last'.args.end_date) > Val(last'.args.start_date)
                THEN /\ last'.result = "returned"
                     /\ last'.ret # None
                     /\ Val(last'.ret).start_date = last'.args.start_date
                     /\ Val(last'.ret).end_date = last'.args.end_date
                     /\ pm_get(sprints', Val(last'.ret).id) = last'.ret
                ELSE /\ last'.result = "raised"
                     /\ last'.err = EndDateError
                     /\ sprints' = sprints )
        /\ ( ( /\ last'.op = "CreateSprintTool"
               /\ Truthy(last'.args.start_date) /\ Truthy(last'.args.end_date)
               /\ strptime(Val(last'.args.start_date)) # None
               /\ strptime(Val(last'.args.end_date)) # None )
             => IF Val(strptime(Val(last'.args.end_date)))
                      > Val(strptime(Val(last'.args.start_date)))
                THEN /\ last'.ret[1] = "Sprint '"
                     /\ last'.ret[4] \in DOMAIN sprints'
                     /\ sprints'[last'.ret[4]].start_date = strptime(Val(last'.args.start_date))
                     /\ sprints'[last'.ret[4]].end_date = strptime(Val(last'.args.end_date))
                ELSE /\ last'.ret = <<"Tool Error: ", EndDateError>>
                     /\ sprints' = sprints ) ]_vars

(* C6 witness: create_sprint was refused for equal dates while a sprint is *)
(* stored.                                                                 *)
C6_Witness ==
    /\ last.op = "create_sprint"
    /\ last.result = "raised"
    /\ BothDates(last.args)
    /\ last.args.end_date = last.args.start_date
    /\ sprints # EmptyStore

(* C7: update_sprint on a stored sprint raises, and leaves the stored      *)
(* sprint unchanged, whenever the record it would persist has both dates   *)
(* set with end_date <= start_date.                                        *)
C7_UpdateRejectsBadDates ==
    [][ ( /\ last'.op = "update_sprint"
          /\ last'.args.sprint_id \in DOMAIN sprints
          /\ LET a == last'.args
                 would == sprint_model_copy(sprints[a.sprint_id], a.name, a.goal,
                                            a.start_date, a.end_date, a.status,
                                            a.story_ids, a.tags)
             IN  BothDates(would) /\ Val(would.end_date) <= Val(would.start_date) )
        => /\ last'.result = "raised"
           /\ sprints' = sprints ]_vars

RECURSIVE Count(_, _)
Count(seq, x) ==
    IF seq = <<>> THEN 0
    ELSE (IF Head(seq) = x THEN 1 ELSE 0) + Count(Tail(seq), x)

(* C3: a stored story whose sprint_id is set references a stored sprint    *)
(* whose story_ids contains the story's ID, and a set epic_id references a *)
(* stored epic listing the story.                                          *)
C3_BackReferencesListed ==
    \A sid \in DOMAIN stories :
        /\ stories[sid].sprint_id # None
              => /\ Val(stories[sid].sprint_id) \in DOMAIN sprints
                 /\ sid \in Range(sprints[Val(stories[sid].sprint_id)].story_ids)
        /\ stories[sid].epic_id # None
              => /\ Val(stories[sid].epic_id) \in DOMAIN epics
                 /\ sid \in Range(epics[Val(stories[sid].epic_id)].story_ids)

C1_EpicStoriesOwned ==
    \A eid \in DOMAIN epics :
        \A sid \in Range(epics[eid].story_ids) :
            /\ sid \in DOMAIN stories
            /\ stories[sid].epic_id = Some(eid)

(* C2: after delete_epic(E) returns true the epic is gone, no stored story *)
(* has epic_id E, and every story that E listed or whose epic_id was E is  *)
(* stored with epic_id none and its other fields as before.                *)
C2_DeleteEpicClearsStories ==
    [][ (last'.op = "delete_epic" /\ last'.ret = TRUE)
        => LET E == last'.args.epic_id
           IN  /\ E \in DOMAIN epics
               /\ E \notin DOMAIN epics'
               /\ DOMAIN stories' = DOMAIN stories
               /\ \A sid \in DOMAIN stories' : stories'[sid].epic_id # Some(E)
               /\ \A sid \in DOMAIN stories :
                     (sid \in Range(epics[E].story_ids) \/ stories[sid].epic_id = Some(E))
                        => stories'[sid] = [stories[sid] EXCEPT !.epic_id = None] ]_vars

(* C2 witness: delete_epic returned true for an epic that listed both      *)
(* stories, and both are stored with no epic_id.                           *)
C2_Witness ==
    /\ last.op = "delete_epic"
    /\ last.ret = TRUE
    /\ Range(Val(last.args.loaded).story_ids) = StoryIds
    /\ DOMAIN stories = StoryIds
    /\ \A sid \in StoryIds : stories[sid].epic_id = None

(* The priority order the backlog claim states: critical > high > medium   *)
(* > low.                                                                  *)
PriorityAbove ==
    { <<"critical", "high">>, <<"critical", "medium">>, <<"critical", "low">>,
      <<"high", "medium">>, <<"high", "low">>, <<"medium", "low">> }

InBacklog(story, a) ==
    /\ story.sprint_id = None
    /\ a.status # None => story.status = Val(a.status)
    /\ a.priority # None => story.priority = Val(a.priority)
    /\ a.tags # None =>
          \E t \in Range(Val(a.tags)), u \in Range(story.tags) : Lower(t) = Lower(u)

(* C10: get_product_backlog_stories returns exactly the stored stories     *)
(* with no sprint_id that pass every supplied status, priority and tag     *)
(* filter (tags case-insensitive, any-of; done stories included), each     *)
(* once, ordered by priority descending and, within a priority, by         *)
(* created_at descending.                                                  *)
C10_BacklogFilteredAndOrdered ==
    last.op = "get_product_backlog_stories"
    => LET r == last.ret
       IN  /\ Range(r) = {stories[sid] : sid \in {x \in DOMAIN stories :
                                                   InBacklog(stories[x], last.args)}}
           /\ Len(r) = Cardinality(Range(r))
           /\ \A i \in 1..Len(r), j \in 1..Len(r) :
                 i < j => \/ <<r[i].priority, r[j].priority>> \in PriorityAbove
                          \/ /\ r[i].priority = r[j].priority
                             /\ r[i].created_at >= r[j].created_at

(* C10 witness: an unfiltered backlog query returned two stories of one    *)
(* priority, the newer first and the older, a done story, second.          *)
C10_Witness ==
    /\ last.op = "get_product_backlog_stories"
    /\ last.args = [status |-> None, priority |-> None, tags |-> None]
    /\ Len(last.ret) = 2
    /\ last.ret[1].priority = last.ret[2].priority
    /\ last.ret[1].created_at > last.ret[2].created_at
    /\ last.ret[2].status = "done"

ActiveSprints == {id \in DOMAIN sprints : sprints[id].status = "active"}

(* C11: get_active_sprint returns none iff no stored sprint is active;     *)
(* otherwise it returns a stored active sprint, story_ids included, whose  *)
(* created_at is the greatest among the active sprints.  So once the only  *)
(* active sprint is completed it returns none again.                       *)
C11_ActiveSprintOrNone ==
    last.op = "get_active_sprint"
    => /\ last.result = "returned"
       /\ last.ret = None <=> ActiveSprints = {}
       /\ last.ret # None =>
             LET r == Val(last.ret)
             IN  /\ r.id \in ActiveSprints
                 /\ r = sprints[r.id]
                 /\ \A id \in ActiveSprints : r.created_at >= sprints[id].created_at

(* C11 witness: with two active sprints created on different days, the     *)
(* newer one is returned with its story_ids.                               *)
C11_Witness ==
    /\ last.op = "get_active_sprint"
    /\ last.ret # None
    /\ Cardinality(ActiveSprints) = 2
    /\ \E id \in ActiveSprints : sprints[id].created_at < Val(last.ret).created_at
    /\ Val(last.ret).story_ids = <<"STORY-1">>

(* C11 witness of the closing case: a sprint that was started and then     *)
(* completed is the only sprint, and get_active_sprint returns none.       *)
C11_NoneAgain ==
    /\ last.op = "get_active_sprint"
    /\ last.ret = None
    /\ \E id \in DOMAIN sprints :
          sprints[id].status = "completed" /\ sprints[id].start_date # None

(* C20: list_sprints returns exactly the stored sprints matching the       *)
(* status filter, each once, newest created_at first; with                 *)
(* include_story_ids false every returned record has empty story_ids and   *)
(* is otherwise the stored record, with it true the returned records are   *)
(* the stored ones; the stored sprints are left as they were.              *)
C20_ListSprints ==
    [][ last'.op = "list_sprints"
        => LET r == last'.ret
               a == last'.args
               matching == {id \in DOMAIN sprints :
                               a.status = None \/ sprints[id].status = Val(a.status)}
           IN  /\ sprints' = sprints
               /\ {r[i].id : i \in 1..Len(r)} = matching
               /\ Len(r) = Cardinality(matching)
               /\ \A i \in 1..Len(r), j \in 1..Len(r) :
                     i < j => r[i].created_at >= r[j].created_at
               /\ \A i \in 1..Len(r) :
                     /\ a.include_story_ids => r[i] = sprints[r[i].id]
                     /\ ~a.include_story_ids =>
                           /\ r[i].story_ids = <<>>
                           /\ r[i] = [sprints[r[i].id] EXCEPT !.story_ids = <<>>] ]_vars

(* C20 witness: a summary listing returned two sprints, newest first, with *)
(* empty story_ids while the stored sprints still hold theirs.             *)
C20_Witness ==
    /\ last.op = "list_sprints"
    /\ ~last.args.include_story_ids
    /\ Len(last.ret) = 2
    /\ last.ret[1].created_at > last.ret[2].created_at
    /\ \A i \in 1..2 : /\ last.ret[i].story_ids = <<>>
                       /\ get_sprint(sprints, last.ret[i].id) # None
                       /\ Val(get_sprint(sprints, last.ret[i].id)).story_ids = <<"STORY-1">>

(* The whole state, the call's name and arguments first: it changes        *)
(* exactly when vars does.                                                 *)
observed ==
    <<last.op, last.args, stories, sprints, epics, clock,
      last.result, last.err, last.calls, last.ret>>

StoresUnchanged == stories' = stories /\ sprints' = sprints /\ epics' = epics

(* C12: delete_story, delete_sprint and delete_epic of an ID that is not   *)
(* stored return false without raising and leave every stored artifact     *)
(* unchanged; delete_epic then asks no delete of the storage layer.        *)
C12_DeleteAbsentReturnsFalse ==
    [][ /\ (last'.op = "delete_story" /\ last'.args.story_id \notin DOMAIN stories)
           => (last'.result = "returned" /\ last'.ret = FALSE /\ StoresUnchanged)
        /\ (last'.op = "delete_sprint" /\ last'.args.sprint_id \notin DOMAIN sprints)
           => (last'.result = "returned" /\ last'.ret = FALSE /\ StoresUnchanged)
        /\ (last'.op = "delete_epic" /\ last'.args.epic_id \notin DOMAIN epics)
           => /\ last'.result = "returned" /\ last'.ret = FALSE /\ StoresUnchanged
              /\ last'.calls = <<>> ]_observed

(* C12 witness: delete_epic of an unknown epic returned false while a      *)
(* story, a sprint and an epic are stored.                                 *)
C12_Witness ==
    /\ last.op = "delete_epic"
    /\ last.args.epic_id \notin DOMAIN epics
    /\ last.ret = FALSE
    /\ stories # EmptyStore /\ sprints # EmptyStore /\ epics # EmptyStore

StoryMutations == {"update_story"}
SprintMutations == {"update_sprint", "add_story_to_sprint", "remove_story_from_sprint",
                    "start_sprint", "complete_sprint", "cancel_sprint"}
EpicMutations == {"update_epic", "add_story_to_epic", "remove_story_from_epic"}

(* C14: update_story, update_sprint, add_story_to_sprint,                  *)
(* remove_story_from_sprint, start_sprint, complete_sprint, cancel_sprint,  *)
(* update_epic, add_story_to_epic and remove_story_from_epic addressed to  *)
(* an ID that is not stored return none, ask no write of the storage layer  *)
(* and leave every store unchanged.                                        *)
C14_MutationOfAbsentReturnsNone ==
    [][ ( \/ last'.op \in StoryMutations /\ last'.args.story_id \notin DOMAIN stories
          \/ last'.op \in SprintMutations /\ last'.args.sprint_id \notin DOMAIN sprints
          \/ last'.op \in EpicMutations /\ last'.args.epic_id \notin DOMAIN epics )
        => /\ last'.result = "returned"
           /\ last'.ret = None
           /\ last'.calls = <<>>
           /\ StoresUnchanged ]_observed

(* C14 witness: add_story_to_epic on an unknown epic returned none, the    *)
(* story it names being stored and still without an epic.                  *)
C14_Witness ==
    /\ last.op = "add_story_to_epic"
    /\ last.args.epic_id \notin DOMAIN epics
    /\ last.ret = None
    /\ last.args.story_id \in DOMAIN stories
    /\ stories[last.args.story_id].epic_id = None
    /\ epics # EmptyStore

(* Fields whose stored value is itself optional: a supplied argument is    *)
(* stored as given.                                                        *)
OptionalFields == {"points", "sprint_id", "goal", "start_date", "end_date"}

(* new is old with exactly the fields supplied in a replaced.              *)
OnlySuppliedChanged(old, new, a) ==
    /\ DOMAIN new = DOMAIN old
    /\ \A f \in DOMAIN old :
          new[f] = IF f \in DOMAIN a /\ a[f] # None
                   THEN (IF f \in OptionalFields THEN a[f] ELSE Val(a[f]))
                   ELSE old[f]

(* C13: update_story and update_sprint on a stored artifact persist a      *)
(* record that differs from the prior one in exactly the supplied fields   *)
(* (id and every unsupplied field keep their values), return that record,  *)
(* and change no other stored artifact.                                    *)
C13_UpdateChangesOnlySupplied ==
    [][ /\ (last'.op = "update_story" /\ last'.args.story_id \in DOMAIN stories
              /\ last'.result = "returned")
           => LET id == last'.args.story_id
              IN  /\ DOMAIN stories' = DOMAIN stories
                  /\ OnlySuppliedChanged(stories[id], stories'[id], last'.args)
                  /\ last'.ret = Some(stories'[id])
                  /\ \A o \in DOMAIN stories \ {id} : stories'[o] = stories[o]
                  /\ sprints' = sprints /\ epics' = epics
        /\ (last'.op = "update_sprint" /\ last'.args.sprint_id \in DOMAIN sprints
              /\ last'.result = "returned")
           => LET id == last'.args.sprint_id
              IN  /\ DOMAIN sprints' = DOMAIN sprints
                  /\ OnlySuppliedChanged(sprints[id], sprints'[id], last'.args)
                  /\ last'.ret = Some(sprints'[id])
                  /\ \A o \in DOMAIN sprints \ {id} : sprints'[o] = sprints[o]
                  /\ stories' = stories /\ epics' = epics ]_observed

(* C13 witness: update_story supplied only the points of a story whose     *)
(* other fields had all been changed before, next to a second story and    *)
(* two sprints.                                                            *)
C13_Witness ==
    /\ last.op = "update_story"
    /\ last.args.points = Some(3)
    /\ last.args.title = None
    /\ DOMAIN stories = StoryIds /\ DOMAIN sprints = SprintIds
    /\ stories["STORY-1"].points = Some(3)
    /\ stories["STORY-1"].title = "t2"
    /\ stories["STORY-1"].status = "done"
    /\ stories["STORY-1"].tags = <<"api">>
    /\ stories["STORY-1"].sprint_id = Some("SPRINT-1")

(* C15: add_story_to_epic(E, S) on a stored epic E and a stored story S    *)
(* leaves S exactly once in E's stored story_ids and S stored with         *)
(* epic_id E, by one epic save and one story save; when S is not stored    *)
(* the epic is still saved with S listed and returned, and no story is     *)
(* written.                                                                *)
C15_AddStoryToEpicTwoSided ==
    [][ (last'.op = "add_story_to_epic" /\ last'.args.epic_id \in DOMAIN epics)
        => LET E == last'.args.epic_id
               S == last'.args.story_id
           IN  /\ E \in DOMAIN epics'
               /\ last'.ret = Some(epics'[E])
               /\ Count(epics'[E].story_ids, S) = 1
               /\ S \in DOMAIN stories =>
                     /\ stories' = [stories EXCEPT ![S].epic_id = Some(E)]
                     /\ Len(last'.calls) = 2
                     /\ Range(last'.calls) = {<<"save_epic", E>>, <<"save_story", S>>}
               /\ S \notin DOMAIN stories =>
                     /\ stories' = stories
                     /\ last'.calls = <<<<"save_epic", E>>>> ]_observed

(* C15 witness: add_story_to_epic was called for a story the epic already  *)
(* listed; the story is listed once and names the epic.                    *)
C15_Witness ==
    /\ last.op = "add_story_to_epic"
    /\ last.ret # None
    /\ last.calls = <<<<"save_epic", "EPIC-1">>, <<"save_story", "STORY-1">>>>
    /\ epics["EPIC-1"].story_ids = <<"STORY-1">>
    /\ epics["EPIC-1"].title = "e2"
    /\ stories["STORY-1"].epic_id = Some("EPIC-1")
    /\ stories["STORY-1"].title = "t2"

(* C15 witness of the missing-story case: the epic lists a story that is   *)
(* not stored, and was returned.                                           *)
C15_MissingStory ==
    /\ last.op = "add_story_to_epic"
    /\ last.ret # None
    /\ stories = EmptyStore
    /\ "STORY-1" \in Range(Val(last.ret).story_ids)

(* C16: remove_story_from_epic(E, S) on a stored epic E leaves no S in     *)
(* E's stored story_ids; S's epic_id is cleared iff it was E before the    *)
(* call, so a story that names another epic keeps naming it; nothing else  *)
(* changes.                                                                *)
C16_RemoveStoryFromEpic ==
    [][ (last'.op = "remove_story_from_epic" /\ last'.args.epic_id \in DOMAIN epics)
        => LET E == last'.args.epic_id
               S == last'.args.story_id
           IN  /\ E \in DOMAIN epics'
               /\ S \notin Range(epics'[E].story_ids)
               /\ last'.ret = Some(epics'[E])
               /\ \A o \in DOMAIN epics \ {E} : o \in DOMAIN epics' /\ epics'[o] = epics[o]
               /\ DOMAIN stories' = DOMAIN stories
               /\ \A o \in DOMAIN stories :
                     stories'[o] = IF o = S /\ stories[o].epic_id = Some(E)
                                   THEN [stories[o] EXCEPT !.epic_id = None]
                                   ELSE stories[o] ]_observed

(* C16 witness: a story listed by EPIC-1 but naming EPIC-2 was removed     *)
(* from EPIC-1 and still names EPIC-2.                                     *)
C16_Witness ==
    /\ last.op = "remove_story_from_epic"
    /\ last.args = [epic_id |-> "EPIC-1", story_id |-> "STORY-1"]
    /\ last.calls = <<<<"save_epic", "EPIC-1">>>>
    /\ "STORY-1" \in DOMAIN stories
    /\ stories["STORY-1"].epic_id = Some("EPIC-2")
    /\ "EPIC-2" \in DOMAIN epics
    /\ "STORY-1" \in Range(epics["EPIC-2"].story_ids)

(* C16 witness of the clearing case: the removed story named the epic and  *)
(* is now stored without an epic.                                          *)
C16_Cleared ==
    /\ last.op = "remove_story_from_epic"
    /\ last.calls = <<<<"save_epic", "EPIC-1">>, <<"save_story", "STORY-1">>>>
    /\ stories["STORY-1"].epic_id = None

(* The sprint store after one sprint's record was replaced.                *)
SprintReplaced(id, rec) == sprints' = [sprints EXCEPT ![id] = rec]

(* C17: on a stored sprint, start_sprint sets status active and            *)
(* start_date to the given date or now, complete_sprint sets status        *)
(* completed and end_date to the given date or now, cancel_sprint sets     *)
(* status cancelled; the sprint's other fields and every other stored      *)
(* sprint stay as they were.                                               *)
C17_LifecycleFrame ==
    [][ /\ (last'.op = "start_sprint" /\ last'.args.sprint_id \in DOMAIN sprints)
           => LET id == last'.args.sprint_id
                  d == IF last'.args.start_date = None THEN Some(clock)
                       ELSE last'.args.start_date
              IN  SprintReplaced(id, [sprints[id] EXCEPT !.status = "active",
                                                         !.start_date = d])
        /\ (last'.op = "complete_sprint" /\ last'.args.sprint_id \in DOMAIN sprints)
           => LET id == last'.args.sprint_id
                  d == IF last'.args.end_date = None THEN Some(clock)
                       ELSE last'.args.end_date
              IN  SprintReplaced(id, [sprints[id] EXCEPT !.status = "completed",
                                                         !.end_date = d])
        /\ (last'.op = "cancel_sprint" /\ last'.args.sprint_id \in DOMAIN sprints)
           => LET id == last'.args.sprint_id
              IN  SprintReplaced(id, [sprints[id] EXCEPT !.status = "cancelled"])
        /\ last'.op \in {"start_sprint", "complete_sprint", "cancel_sprint"}
           => stories' = stories /\ epics' = epics ]_observed

(* C17 witness: a sprint started on one day was completed on a later day   *)
(* with no date given; it keeps its start_date and story_ids, and the      *)
(* other sprint is still in planning.                                      *)
C17_Witness ==
    /\ last.op = "complete_sprint"
    /\ last.args = [sprint_id |-> "SPRINT-1", end_date |-> None]
    /\ DOMAIN sprints = SprintIds
    /\ sprints["SPRINT-1"].status = "completed"
    /\ sprints["SPRINT-1"].start_date = Some(1)
    /\ sprints["SPRINT-1"].end_date = Some(clock)
    /\ clock > 1
    /\ sprints["SPRINT-1"].story_ids = <<"STORY-1">>
    /\ sprints["SPRINT-2"].status = "planning"

(* seq with every occurrence of x left out, the rest in order.             *)
RECURSIVE Without(_, _)
Without(seq, x) ==
    IF seq = <<>> THEN <<>>
    ELSE IF Head(seq) = x THEN Without(Tail(seq), x)
    ELSE <<Head(seq)>> \o Without(Tail(seq), x)

(* C18: remove_story_from_sprint(S, T) on a stored sprint S leaves         *)
(* story_ids without any T and with the other IDs in their prior order,    *)
(* changes nothing when T was not listed, and a second call changes        *)
(* nothing more.                                                           *)
C18_RemoveStoryFromSprint ==
    [][ (last'.op = "remove_story_from_sprint" /\ last'.args.sprint_id \in DOMAIN sprints)
        => LET S == last'.args.sprint_id
               T == last'.args.story_id
           IN  /\ sprints' = [sprints EXCEPT ![S].story_ids = Without(@, T)]
               /\ T \notin Range(sprints'[S].story_ids)
               /\ last'.ret = Some(sprints'[S])
               /\ T \notin Range(sprints[S].story_ids) => sprints' = sprints
               /\ remove_story_from_sprint_call(sprints', S, T).store = sprints' ]_observed

(* C18 witness: STORY-1 was removed from a sprint that is left with the    *)
(* two other stories in their order, next to a second sprint.              *)
C18_Witness ==
    /\ last.op = "remove_story_from_sprint"
    /\ last.args = [sprint_id |-> "SPRINT-1", story_id |-> "STORY-1"]
    /\ last.ret # None
    /\ sprints["SPRINT-1"].story_ids = <<"STORY-3", "STORY-2">>
    /\ "SPRINT-2" \in DOMAIN sprints

Listed(story, a) ==
    /\ a.status # None => story.status = Val(a.status)
    /\ a.priority # None => story.priority = Val(a.priority)
    /\ a.sprint_id # None => story.sprint_id = a.sprint_id
    /\ (a.sprint_id = None /\ a._filter_no_sprint) => story.sprint_id = None

(* C19: list_stories returns exactly the stored stories, each once, that   *)
(* satisfy every supplied status, priority and sprint_id filter; the       *)
(* no-sprint flag keeps only stories with no sprint_id when no sprint_id   *)
(* filter is given and has no effect when one is given.                    *)
C19_ListStories ==
    last.op = "list_stories"
    => LET r == last.ret
       IN  /\ Range(r) = {stories[id] : id \in {x \in DOMAIN stories :
                                                  Listed(stories[x], last.args)}}
           /\ Len(r) = Cardinality(Range(r))
           /\ (last.args.sprint_id # None /\ last.args._filter_no_sprint)
                 => r = list_stories_call(stories, last.args.status, last.args.priority,
                                          last.args.sprint_id, FALSE).ret

(* C19 witness: a listing with a sprint_id filter, a status filter and the *)
(* no-sprint flag returned the one matching story of that sprint, while a  *)
(* story of the same sprint with another status is stored.                 *)
C19_Witness ==
    /\ last.op = "list_stories"
    /\ last.args.sprint_id = Some("SPRINT-1")
    /\ last.args.status = Some("todo")
    /\ last.args._filter_no_sprint
    /\ Len(last.ret) = 1
    /\ last.ret[1].sprint_id = Some("SPRINT-1")
    /\ \E id \in DOMAIN stories :
          stories[id].sprint_id = Some("SPRINT-1") /\ stories[id].status = "done"

(* C19 witness of the flag alone: with no sprint_id filter the flag        *)
(* returned the one story without a sprint and left out the other.         *)
C19_FlagAlone ==
    /\ last.op = "list_stories"
    /\ last.args.sprint_id = None
    /\ last.args._filter_no_sprint
    /\ Len(last.ret) = 1
    /\ Cardinality(DOMAIN stories) = 2

DayCountKeys == {"days_until_start", "days_overdue", "days_remaining"}

BothDatesSet(id) ==
    /\ id \in DOMAIN sprints
    /\ sprints[id].start_date # None
    /\ sprints[id].end_date # None

(* C21: for a stored sprint with both dates set, get_sprint_progress       *)
(* reports 0 percent and days_until_start before the start, 100 percent    *)
(* and days_overdue after the end, and otherwise                           *)
(* (now - start) / (end - start) * 100 and days_remaining; exactly one day *)
(* count is present and the percentage lies in [0, 100].                   *)
C21_TimeProgress ==
    (last.op = "get_sprint_progress" /\ BothDatesSet(last.args.sprint_id))
    => LET r == last.ret
           now == last.args.now
           start == Val(sprints[last.args.sprint_id].start_date)
           end == Val(sprints[last.args.sprint_id].end_date)
           p == r.time_progress_percent
       IN  /\ last.result = "returned"
           /\ "time_progress_percent" \in DOMAIN r
           /\ Cardinality(DOMAIN r \cap DayCountKeys) = 1
           /\ p.den > 0 /\ 0 <= p.num /\ p.num <= 100 * p.den
           /\ now < start => p.num = 0 /\ "days_until_start" \in DOMAIN r
           /\ now > end => p.num = 100 * p.den /\ "days_overdue" \in DOMAIN r
           /\ (now >= start /\ now <= end)
                 => /\ p.num * (end - start) = (now - start) * 100 * p.den
                    /\ "days_remaining" \in DOMAIN r

(* A progress call made on the day a sprint both starts and ends.          *)
C21_ZeroLengthSprint ==
    /\ last.op = "get_sprint_progress"
    /\ BothDatesSet(last.args.sprint_id)
    /\ sprints[last.args.sprint_id].start_date = Some(last.args.now)
    /\ sprints[last.args.sprint_id].end_date = Some(last.args.now)

TimeKeys == {"time_progress_percent"} \cup DayCountKeys

(* C22: get_sprint_progress returns an empty record iff the sprint ID is   *)
(* not stored; for a stored sprint the record carries the stored status    *)
(* and story_count equal to the length of the stored story_ids, and no     *)
(* time-progress key when either date is unset.                            *)
C22_ProgressRecord ==
    last.op = "get_sprint_progress"
    => LET id == last.args.sprint_id
           r == last.ret
       IN  /\ id \notin DOMAIN sprints => (last.result = "returned" /\ DOMAIN r = {})
           /\ (id \in DOMAIN sprints /\ last.result = "returned")
                 => /\ DOMAIN r # {}
                    /\ r.sprint_id = id
                    /\ r.status = sprints[id].status
                    /\ r.story_count = Len(sprints[id].story_ids)
           /\ (id \in DOMAIN sprints /\ ~BothDatesSet(id))
                 => (last.result = "returned" /\ DOMAIN r \cap TimeKeys = {})

(* C22 witness: progress of a started sprint with no end date, after a     *)
(* story was added: one story counted, no time-progress key.               *)
C22_Witness ==
    /\ last.op = "get_sprint_progress"
    /\ last.args.sprint_id \in DOMAIN sprints
    /\ last.result = "returned"
    /\ last.ret.story_count = 1
    /\ last.ret.status = "active"
    /\ last.ret.end_date = None
    /\ DOMAIN last.ret \cap TimeKeys = {}

(* C22 witness of the unknown sprint: an empty record while another        *)
(* sprint is stored.                                                       *)
C22_Unknown ==
    /\ last.op = "get_sprint_progress"
    /\ last.args.sprint_id \notin DOMAIN sprints
    /\ DOMAIN last.ret = {}
    /\ sprints # EmptyStore

SprintLookupTools ==
    {"GetSprintTool", "UpdateSprintTool", "ManageSprintStoriesTool", "GetSprintProgressTool"}

StoryLookupTools == {"GetStoryTool", "UpdateStoryTool", "DeleteStoryTool"}

(* The step is a lookup tool called with an ID that is not stored.         *)
UnknownIdCall ==
    \/ last'.op \in SprintLookupTools /\ last'.args.sprint_id \notin DOMAIN sprints
    \/ last'.op \in StoryLookupTools /\ last'.args.story_id \notin DOMAIN stories

ToolErrorReturned == last'.result = "returned" /\ last'.ret[1] = "Tool Error: "

(* The other arguments of the call pass the tool's own checks.             *)
ArgumentsWellFormed ==
    LET args == last'.args
    IN  CASE last'.op = "UpdateSprintTool" ->
                /\ args.status # None => SprintStatus(Val(args.status)) # None
                /\ args.start_date # None => strptime(Val(args.start_date)) # None
                /\ args.end_date # None => strptime(Val(args.end_date)) # None
          [] last'.op = "ManageSprintStoriesTool" -> args.action \in {"add", "remove"}
          [] last'.op = "UpdateStoryTool" ->
                /\ args.priority # None => Val(args.priority) \in Priorities
                /\ args.status # None => Val(args.status) \in StoryStatuses
                /\ args.points # None => Val(args.points) \in valid_points
          [] OTHER -> TRUE

(* C23 as stated: every lookup tool called with an unknown ID returns a    *)
(* 'Tool Error:' string containing 'not found' and leaves the store        *)
(* unchanged.                                                              *)
C23_UnknownIdNotFound ==
    [][UnknownIdCall
       => /\ ToolErrorReturned
          /\ contains_not_found(last'.ret[2])
          /\ StoresUnchanged]_observed

(* C23 amended: every lookup tool called with an unknown ID returns a      *)
(* 'Tool Error:' string and leaves the store unchanged; the string         *)
(* contains 'not found' when the other arguments pass the tool's checks,   *)
(* which run before the lookup.                                            *)
C23_UnknownIdToolError ==
    [][UnknownIdCall
       => /\ ToolErrorReturned
          /\ StoresUnchanged
          /\ ArgumentsWellFormed => contains_not_found(last'.ret[2])]_observed

(* C23 witness: an update of an unknown sprint answered with 'not found'   *)
(* while another sprint is stored.                                         *)
C23_Witness ==
    /\ last.op = "UpdateSprintTool"
    /\ last.args.sprint_id \notin DOMAIN sprints
    /\ last.args.status = Some("ACTIVE")
    /\ sprints # EmptyStore
    /\ last.ret = <<"Tool Error: ", SprintNotFound>>

(* C23 witness of the malformed argument: an unknown sprint and an invalid *)
(* status are answered with the status error.                              *)
C23_InvalidArgumentFirst ==
    /\ last.op = "UpdateSprintTool"
    /\ last.args.sprint_id \notin DOMAIN sprints
    /\ last.ret = <<"Tool Error: ", "Invalid status">>

(* The story tool answered with the points error.                          *)
ToolRejectsPoints == last.ret = <<"Tool Error: ", FibonacciError>>

(* C27: the story tools and the story service agree on the valid points:   *)
(* the create-story tool, and the update-story tool on a stored story with *)
(* otherwise valid arguments, reject a points value iff                    *)
(* StoryService.create_story / update_story reject it.                     *)
C27_ToolAndServiceAgree ==
    /\ last.op = "CreateStoryTool" => (ToolRejectsPoints <=> points_rejected(last.args.points))
    /\ ( /\ last.op = "UpdateStoryTool"
         /\ last.args.story_id \in DOMAIN stories
         /\ last.args.priority = None
         /\ last.args.status = None )
       => (ToolRejectsPoints <=> points_rejected(last.args.points))

(* The points values on which the two layers differ: valid for the         *)
(* service, rejected by the tools.                                         *)
C27_ServiceOnlyPoints ==
    /\ last.op \in {"CreateStoryTool", "UpdateStoryTool"}
    /\ ToolRejectsPoints
    /\ ~points_rejected(last.args.points)

(* The sprints whose story_ids list the story.                             *)
SprintsListing(story_id) ==
    {sp \in DOMAIN sprints : story_id \in Range(sprints[sp].story_ids)}

(* C24: delete_story of a stored story that is listed in some sprint's     *)
(* story_ids returns true, removes the story and leaves every sprint, its  *)
(* story_ids included, unchanged.                                          *)
C24_DeleteListedStory ==
    [][( /\ last'.op = "delete_story"
         /\ last'.args.story_id \in DOMAIN stories
         /\ SprintsListing(last'.args.story_id) # {} )
       => /\ last'.result = "returned"
          /\ last'.ret = TRUE
          /\ last'.args.story_id \notin DOMAIN stories'
          /\ sprints' = sprints]_observed

(* C24 witness: a deleted story that a stored sprint still lists.          *)
C24_Witness ==
    /\ last.op = "delete_story"
    /\ last.ret = TRUE
    /\ last.args.story_id \notin DOMAIN stories
    /\ SprintsListing(last.args.story_id) # {}

(* The status a status-changing call asks for.                             *)
RequestedStatus(op, args) ==
    CASE op = "start_sprint" -> Some("active")
      [] op = "complete_sprint" -> Some("completed")
      [] op = "cancel_sprint" -> Some("cancelled")
      [] op = "update_sprint" -> args.status
      [] OTHER -> None

(* C25: whatever the stored status of a sprint, update_sprint with a       *)
(* status, start_sprint, complete_sprint or cancel_sprint returns and      *)
(* leaves the sprint with the requested status; no other sprint's status   *)
(* is consulted or changed.                                                *)
C25_AnyTransition ==
    [][( /\ RequestedStatus(last'.op, last'.args) # None
         /\ last'.args.sprint_id \in DOMAIN sprints )
       => LET id == last'.args.sprint_id
          IN  /\ last'.result = "returned"
              /\ sprints'[id].status = Val(RequestedStatus(last'.op, last'.args))
              /\ \A other \in DOMAIN sprints \ {id} : sprints'[other] = sprints[other]]_observed

(* C25 witness: a sprint started while the other sprint is active, the     *)
(* started sprint having been completed before (complete_sprint is the     *)
(* only call here that sets an end date).                                  *)
C25_Witness ==
    /\ last.op = "start_sprint"
    /\ DOMAIN sprints = SprintIds
    /\ \A id \in SprintIds : sprints[id].status = "active"
    /\ sprints[last.args.sprint_id].end_date # None

(* C25 witness of completed -> planning: update_sprint put a sprint that   *)
(* carries a completion date back to planning.                             *)
C25_CompletedToPlanning ==
    /\ last.op = "update_sprint"
    /\ last.args.status = Some("planning")
    /\ last.args.sprint_id \in DOMAIN sprints
    /\ sprints[last.args.sprint_id].status = "planning"
    /\ sprints[last.args.sprint_id].end_date # None

NullableStoryFields == {"sprint_id", "points"}

NullableSprintFields == {"goal", "start_date", "end_date"}

SprintUpdateOps == {"update_sprint", "start_sprint", "complete_sprint", "cancel_sprint"}

(* C26: an update never clears a nullable field: after update_story a      *)
(* stored story's sprint_id and points, and after update_sprint,           *)
(* start_sprint, complete_sprint or cancel_sprint a stored sprint's goal,  *)
(* start_date and end_date, are non-none if they were non-none before.     *)
C26_NeverCleared ==
    [][/\ last'.op = "update_story"
          => \A id \in DOMAIN stories :
                /\ id \in DOMAIN stories'
                /\ \A f \in NullableStoryFields :
                      stories[id][f] # None => stories'[id][f] # None
       /\ last'.op \in SprintUpdateOps
          => \A id \in DOMAIN sprints :
                /\ id \in DOMAIN sprints'
                /\ \A f \in NullableSprintFields :
                      sprints[id][f] # None => sprints'[id][f] # None]_observed

(* C26 witness: a sprint with goal and both dates set, after a cancel that *)
(* passes none of them.                                                    *)
C26_Witness ==
    /\ last.op = "cancel_sprint"
    /\ last.args.sprint_id \in DOMAIN sprints
    /\ \A f \in NullableSprintFields : sprints[last.args.sprint_id][f] # None

(* C26 witness for stories: points and sprint_id both set after an update  *)
(* that supplies neither.                                                  *)
C26_StoryKept ==
    /\ last.op = "update_story"
    /\ last.args.points = None
    /\ last.args.sprint_id = None
    /\ last.args.story_id \in DOMAIN stories
    /\ \A f \in NullableStoryFields : stories[last.args.story_id][f] # None

(* The call added one artifact to the store and changed no stored one.     *)
AddsExactlyOne(before, after) ==
    /\ Cardinality(DOMAIN after) = Cardinality(DOMAIN before) + 1
    /\ \A id \in DOMAIN before : id \in DOMAIN after /\ after[id] = before[id]

(* C28: a create_story or create_sprint that returns adds exactly one      *)
(* artifact to its collection and leaves every previously stored artifact  *)
(* unchanged, whichever ID the generator returned.                         *)
C28_CreateAddsOne ==
    [][/\ (last'.op = "create_story" /\ last'.result = "returned")
          => (AddsExactlyOne(stories, stories') /\ sprints' = sprints)
       /\ (last'.op = "create_sprint" /\ last'.result = "returned")
          => (AddsExactlyOne(sprints, sprints') /\ stories' = stories)]_observed

NoDuplicates(story_ids) == \A x \in Range(story_ids) : Count(story_ids, x) = 1

Position(story_ids, x) == CHOOSE i \in 1..Len(story_ids) : story_ids[i] = x

(* C29 as stated: no sprint's story_ids holds an ID twice, and the IDs     *)
(* appear in the order of their first addition: STORY-1, always first      *)
(* added before STORY-2, precedes it wherever both are listed.             *)
C29_FirstAdditionOrder ==
    \A id \in DOMAIN sprints :
        LET story_ids == sprints[id].story_ids
        IN  /\ NoDuplicates(story_ids)
            /\ {"STORY-1", "STORY-2"} \subseteq Range(story_ids)
               => Position(story_ids, "STORY-1") < Position(story_ids, "STORY-2")

(* C29 amended: after every call no sprint's story_ids holds an ID twice,  *)
(* and the IDs appear in the order of their latest addition: an add of an  *)
(* absent ID puts it last, an add of a listed ID changes nothing, and a    *)
(* remove takes the ID out and keeps the others in order.                  *)
C29_LatestAdditionOrder ==
    [][LET id == last'.args.sprint_id
           sid == last'.args.story_id
       IN  /\ \A sp \in DOMAIN sprints' : NoDuplicates(sprints'[sp].story_ids)
           /\ (last'.op = "add_story_to_sprint" /\ id \in DOMAIN sprints)
              => sprints'[id].story_ids =
                    IF sid \in Range(sprints[id].story_ids)
                    THEN sprints[id].story_ids
                    ELSE Append(sprints[id].story_ids, sid)
           /\ (last'.op = "remove_story_from_sprint" /\ id \in DOMAIN sprints)
              => sprints'[id].story_ids = Without(sprints[id].story_ids, sid)]_observed

(* C29 witness: a sprint listing all three stories after adds and removes. *)
C29_Witness ==
    /\ last.op = "add_story_to_sprint"
    /\ last.args.sprint_id \in DOMAIN sprints
    /\ sprints[last.args.sprint_id].story_ids = <<"STORY-3", "STORY-1", "STORY-2">>

(* C29 witness of the re-added story: STORY-1, removed and added again,    *)
(* now follows STORY-2.                                                    *)
C29_ReAdded ==
    /\ last.op = "add_story_to_sprint"
    /\ last.args.story_id = "STORY-1"
    /\ last.args.sprint_id \in DOMAIN sprints
    /\ sprints[last.args.sprint_id].story_ids = <<"STORY-2", "STORY-1">>

QueryOps ==
    {"get_story", "list_stories", "get_sprint", "list_sprints", "get_sprints_by_status",
     "get_active_sprint", "calculate_sprint_duration", "get_sprint_progress"}

(* C30: a query asks no save or delete of the storage layer and leaves     *)
(* every stored artifact as it was; calculate_sprint_duration returns      *)
(* end_date - start_date for a stored sprint with both dates set and none  *)
(* otherwise.                                                              *)
C30_QueriesReadOnly ==
    [][last'.op \in QueryOps
       => /\ StoresUnchanged
          /\ last'.calls = <<>>
          /\ last'.op = "calculate_sprint_duration"
             => LET id == last'.args.sprint_id
                IN  /\ last'.result = "returned"
                    /\ IF id \in DOMAIN sprints /\ BothDatesSet(id)
                       THEN last'.ret = Some(Val(sprints[id].end_date)
                                             - Val(sprints[id].start_date))
                       ELSE last'.ret = None]_observed

(* C30 witness: the duration of a stored sprint that has a start date but  *)
(* no end date is none, the sprint still listing its story.                *)
C30_Witness ==
    /\ last.op = "calculate_sprint_duration"
    /\ last.args.sprint_id \in DOMAIN sprints
    /\ sprints[last.args.sprint_id].start_date # None
    /\ sprints[last.args.sprint_id].end_date = None
    /\ sprints[last.args.sprint_id].story_ids = <<"STORY-1">>
    /\ last.ret = None

(* C30 witness of a computed duration: both dates set, one day apart.      *)
C30_Duration ==
    /\ last.op = "calculate_sprint_duration"
    /\ last.ret = Some(1)

====
